---------------------------- MODULE Spec2Model ----------------------------
(***************************************************************************)
(* console-slog: the line-rendering engine of the slog console handler.    *)
(*                                                                         *)
(* Modelled from src/handler.go (the second copy of the package in that    *)
(* file, lines 633-1368: NewHandler, Handle, WithAttrs, WithGroup,         *)
(* memoizeHeaders, parseFormat) and src/encoding.go (encoderPool,          *)
(* newEncoder, free, writeAttr, writeHeader, writeLevel, ...).             *)
(*                                                                         *)
(* Go strings and byte slices are sequences of one-character strings.      *)
(* Slices keep Go's semantics: a slice is a window (length) on a backing   *)
(* array (capacity); append writes in place while the capacity allows and  *)
(* reallocates otherwise; re-slicing past the length shows what the        *)
(* backing array holds; re-slicing past the capacity panics.               *)
(*                                                                         *)
(* The handler is modelled with NoColor = true (withColor then only runs   *)
(* its callback, src/encoding.go:57-61), and attribute values are plain    *)
(* strings, groups or the zero Value (no LogValuer, so Value.Resolve is    *)
(* the identity on them).                                                  *)
(***************************************************************************)
EXTENDS Integers, Sequences, FiniteSets, TLC

(***************************************************************************)
(* Bounds of the model.                                                    *)
(***************************************************************************)
MaxFmtLen == 4        \* longest enumerated template in SpecParse
MaxPool == 1          \* most encoders idle in the pool at a time
MaxHandlers == 3      \* most handlers alive in SpecChain
MaxThreads == 2       \* concurrent callers of Handle in SpecConc
MaxCalls == 2         \* Handle calls each of them makes
MaxGroupHandlers == 6 \* most handlers alive in SpecGroups

(***************************************************************************)
(* Bytes and strings.                                                      *)
(***************************************************************************)
NUL == "NUL"          \* the zero byte of a freshly allocated array

\* unicode.IsSpace / the asciiSpace table used by strings.TrimSpace and
\* bytes.TrimSpace, restricted to the bytes the model uses.
IsSpace(c) == c \in {" ", "\n", "\t"}

\* s[i] with Go's 0-based index.
At(s, i) == s[i + 1]

\* s[a:b] with Go's 0-based half-open bounds.
Slice(s, a, b) == SubSeq(s, a + 1, b)

RECURSIVE Repeat(_, _)
Repeat(c, n) == IF n <= 0 THEN <<>> ELSE <<c>> \o Repeat(c, n - 1)

RECURSIVE LeadingSpaces(_)
LeadingSpaces(s) ==
    IF s = <<>> \/ ~IsSpace(Head(s)) THEN 0 ELSE 1 + LeadingSpaces(Tail(s))

RECURSIVE TrailingSpaces(_)
TrailingSpaces(s) ==
    IF s = <<>> \/ ~IsSpace(s[Len(s)]) THEN 0
    ELSE 1 + TrailingSpaces(SubSeq(s, 1, Len(s) - 1))

\* strings.TrimSpace
StrTrimSpace(s) ==
    LET a == LeadingSpaces(s)
    IN  IF a = Len(s) THEN <<>>
        ELSE SubSeq(s, a + 1, Len(s) - TrailingSpaces(s))

\* A variant that finds the first c of s instead of the last.
RECURSIVE FirstIndexByte(_, _)
FirstIndexByte(s, c) ==
    IF s = <<>> THEN -1
    ELSE IF Head(s) = c THEN 0
    ELSE IF FirstIndexByte(Tail(s), c) = -1 THEN -1
    ELSE 1 + FirstIndexByte(Tail(s), c)

\* strings.LastIndexByte
RECURSIVE LastIndexByte(_, _)
LastIndexByte(s, c) ==
    IF s = <<>> THEN -1
    ELSE IF s[Len(s)] = c THEN Len(s) - 1
    ELSE LastIndexByte(SubSeq(s, 1, Len(s) - 1), c)

Digits == <<"0", "1", "2", "3", "4", "5", "6", "7", "8", "9">>
IsDigit(c) == \E d \in 1..10 : Digits[d] = c
DigitVal(c) == (CHOOSE d \in 1..10 : Digits[d] = c) - 1

\* fmt's %d for a non-negative int
RECURSIVE Itoa(_)
Itoa(n) == IF n < 10 THEN <<Digits[n + 1]>>
           ELSE Itoa(n \div 10) \o <<Digits[(n % 10) + 1]>>

(***************************************************************************)
(* Compiled instructions (the elements of Handler.fields).                 *)
(***************************************************************************)
spacer(hard) == [t |-> "spacer", hard |-> hard]
stringField(s) == [t |-> "string", s |-> s]
timestampField == [t |-> "timestamp"]
messageField == [t |-> "message"]
attrsField == [t |-> "attrs"]
sourceField == [t |-> "source"]
levelField(abbreviated) == [t |-> "level", abbreviated |-> abbreviated]
groupOpen(style) == [t |-> "groupOpen", style |-> style]
groupClose == [t |-> "groupClose"]
headerField(groupPrefix, key, width, rightAlign) ==
    [t |-> "header", groupPrefix |-> groupPrefix, key |-> key,
     width |-> width, rightAlign |-> rightAlign, memo |-> <<>>]

(***************************************************************************)
(* parseFormat's diagnostic literals.                                      *)
(***************************************************************************)
MISSING_VERB ==
    <<"%", "!", "(", "M", "I", "S", "S", "I", "N", "G", "_", "V", "E", "R",
      "B", ")">>
MISSING_HEADER_NAME ==
    <<"%", "!", "h", "(", "M", "I", "S", "S", "I", "N", "G", "_", "H", "E",
      "A", "D", "E", "R", "_", "N", "A", "M", "E", ")">>
MISSING_CLOSING_PARENTHESIS ==
    <<"(", "M", "I", "S", "S", "I", "N", "G", "_", "C", "L", "O", "S", "I",
      "N", "G", "_", "P", "A", "R", "E", "N", "T", "H", "E", "S", "I", "S",
      ")">>
MISSING_CLOSING_BRACKET ==
    <<"(", "M", "I", "S", "S", "I", "N", "G", "_", "C", "L", "O", "S", "I",
      "N", "G", "_", "B", "R", "A", "C", "K", "E", "T", ")">>
INVALID_VERB ==
    <<"(", "I", "N", "V", "A", "L", "I", "D", "_", "V", "E", "R", "B", ")">>
INVALID_MODIFIER ==
    <<"(", "I", "N", "V", "A", "L", "I", "D", "_", "M", "O", "D", "I", "F",
      "I", "E", "R", ")">>
INVALID_STYLE_MODIFIER ==
    <<"(", "I", "N", "V", "A", "L", "I", "D", "_", "S", "T", "Y", "L", "E",
      "_", "M", "O", "D", "I", "F", "I", "E", "R", ")">>

\* The style names getThemeStyleByName recognises.
StyleNames ==
    { <<>>,
      <<"t", "i", "m", "e", "s", "t", "a", "m", "p">>,
      <<"h", "e", "a", "d", "e", "r">>,
      <<"s", "o", "u", "r", "c", "e">>,
      <<"m", "e", "s", "s", "a", "g", "e">>,
      <<"m", "e", "s", "s", "a", "g", "e", "D", "e", "b", "u", "g">>,
      <<"a", "t", "t", "r", "K", "e", "y">>,
      <<"a", "t", "t", "r", "V", "a", "l", "u", "e">>,
      <<"a", "t", "t", "r", "V", "a", "l", "u", "e", "E", "r", "r", "o", "r">>,
      <<"l", "e", "v", "e", "l", "E", "r", "r", "o", "r">>,
      <<"l", "e", "v", "e", "l", "W", "a", "r", "n">>,
      <<"l", "e", "v", "e", "l", "I", "n", "f", "o">>,
      <<"l", "e", "v", "e", "l", "D", "e", "b", "u", "g">> }

\* getThemeStyleByName's second result: whether the name is a known style.
getThemeStyleByName(name) == name \in StyleNames

(***************************************************************************)
(* parseFormat.  The scanner state st is                                   *)
(*   i            the loop index (0-based),                                *)
(*   fields       the instruction list so far,                             *)
(*   headerFields the header catalog so far,                               *)
(*   lastWasSpace the flag of the same name,                               *)
(*   status       "run" while looping, "done" after the loop or a break,   *)
(*                "panic" after an index out of range.                     *)
(* Each P... operator returns the state at the start of the NEXT           *)
(* iteration (the loop's i++ included).                                    *)
(***************************************************************************)
PEmit(st, f, nexti) ==
    [st EXCEPT !.fields = Append(@, f), !.i = nexti]

PBreak(st, f) ==
    [st EXCEPT !.fields = Append(@, f), !.status = "done"]

PPanic(st) == [st EXCEPT !.status = "panic"]

\* for end < len(format) && format[end] != close && format[end] != ' ' { end++ }
RECURSIVE PScan(_, _, _)
PScan(format, end, close) ==
    IF end < Len(format) /\ At(format, end) # close /\ At(format, end) # " "
    THEN PScan(format, end + 1, close)
    ELSE end

\* for i < len(format) && format[i] != '%' && format[i] != ' ' { i++ }
RECURSIVE PScanLiteral(_, _)
PScanLiteral(format, i) ==
    IF i < Len(format) /\ At(format, i) # "%" /\ At(format, i) # " "
    THEN PScanLiteral(format, i + 1)
    ELSE i

\* the width digits: for i < len(format) && isdigit { width = width*10 + d }
RECURSIVE PWidth(_, _, _)
PWidth(format, i, width) ==
    IF i < Len(format) /\ IsDigit(At(format, i))
    THEN PWidth(format, i + 1, width * 10 + DigitVal(At(format, i)))
    ELSE [i |-> i, width |-> width]

\* the modifier loop, src/handler.go:1240-1254; m carries i, width,
\* rightAlign, widthSeen.
RECURSIVE PMods(_, _)
PMods(format, m) ==
    IF m.i < Len(format)
    THEN IF At(format, m.i) = "-"
         THEN PMods(format, [m EXCEPT !.rightAlign = TRUE, !.i = @ + 1])
         ELSE IF IsDigit(At(format, m.i))
         THEN LET w == PWidth(format, m.i, 0)
              IN  PMods(format, [m EXCEPT !.widthSeen = TRUE,
                                          !.width = w.width, !.i = w.i])
         ELSE m
    ELSE m

\* the verb switch and the check of invalid combinations,
\* src/handler.go:1256-1329; m.i is the index of the verb.
PVerb(format, st, m) ==
    IF m.i >= Len(format) THEN PBreak(st, stringField(MISSING_VERB))
    ELSE
    LET c == At(format, m.i)
        hf == LET idx == LastIndexByte(m.key, ".")
              IN  IF idx > -1
                  THEN headerField(Slice(m.key, 0, idx),
                                   Slice(m.key, idx + 1, Len(m.key)),
                                   m.width, m.rightAlign)
                  ELSE headerField(<<>>, m.key, m.width, m.rightAlign)
        field == CASE c = "t" -> timestampField
                   [] c = "h" -> hf
                   [] c = "m" -> messageField
                   [] c = "l" -> levelField(TRUE)
                   [] c = "L" -> levelField(FALSE)
                   [] c = "{" -> groupOpen(m.style)
                   [] c = "}" -> groupClose
                   [] c = "s" -> sourceField
                   [] c = "a" -> attrsField
                   [] OTHER -> stringField(<<"%", "!", c>> \o INVALID_VERB)
    IN  IF c = " "
        THEN \* backtrack so the space is included in the next field
             PEmit(st, stringField(MISSING_VERB), m.i)
        ELSE IF c = "h" /\ m.key = <<>>
        THEN PEmit(st, stringField(MISSING_HEADER_NAME), m.i + 1)
        ELSE IF c = "{" /\ ~getThemeStyleByName(m.style)
        THEN PEmit(st, stringField(<<"%", "!", "{", "(">> \o m.style
                                   \o <<")">> \o INVALID_STYLE_MODIFIER),
                   m.i + 1)
        ELSE IF c \notin {"t", "h", "m", "l", "L", "{", "}", "s", "a"}
        THEN PEmit(st, field, m.i + 1)
        ELSE IF m.styleSeen /\ c # "{"
        THEN PEmit(st, stringField(<<"%", "!", "(">> \o INVALID_MODIFIER
                                   \o <<c>>), m.i + 1)
        ELSE IF m.keySeen /\ c # "h"
        THEN PEmit(st, stringField(<<"%", "!", "[">> \o INVALID_MODIFIER
                                   \o <<c>>), m.i + 1)
        ELSE IF m.widthSeen /\ c # "h"
        THEN PEmit(st, stringField(<<"%", "!">> \o Itoa(m.width)
                                   \o INVALID_MODIFIER \o <<c>>), m.i + 1)
        ELSE IF m.rightAlign /\ c # "h"
        THEN PEmit(st, stringField(<<"%", "!", "-">> \o INVALID_MODIFIER
                                   \o <<c>>), m.i + 1)
        ELSE [st EXCEPT !.fields = Append(@, field),
                        !.headerFields = IF field.t = "header"
                                         THEN Append(@, field) ELSE @,
                        !.i = m.i + 1]

\* the [name] modifier, src/handler.go:1222-1237.  format[i] is read
\* without a bounds check.
PKey(format, st, m) ==
    IF m.i >= Len(format) THEN PPanic(st)
    ELSE IF At(format, m.i) = "["
    THEN LET end == PScan(format, m.i + 1, "]")
         IN  IF end >= Len(format) \/ At(format, end) # "]"
             THEN PEmit(st, stringField(<<"%", "!">>
                                        \o Slice(format, m.i, end)
                                        \o MISSING_CLOSING_BRACKET), end)
             ELSE PVerb(format, st,
                        PMods(format, [m EXCEPT !.keySeen = TRUE,
                                       !.key = Slice(format, m.i + 1, end),
                                       !.i = end + 1]))
    ELSE PVerb(format, st, PMods(format, m))

\* the (style) modifier, src/handler.go:1205-1220.
PStyle(format, st, m) ==
    IF At(format, m.i) = "("
    THEN LET end == PScan(format, m.i + 1, ")")
         IN  IF end >= Len(format) \/ At(format, end) # ")"
             THEN PEmit(st, stringField(<<"%", "!">>
                                        \o Slice(format, m.i, end)
                                        \o MISSING_CLOSING_PARENTHESIS), end)
             ELSE PKey(format, st,
                       [m EXCEPT !.styleSeen = TRUE,
                                 !.style = Slice(format, m.i + 1, end),
                                 !.i = end + 1])
    ELSE PKey(format, st, m)

\* one iteration of the loop of parseFormat, src/handler.go:1163-1330.
PStep(format, st) ==
    LET i == st.i IN
    IF At(format, i) = " "
    THEN [st EXCEPT !.fields = IF st.lastWasSpace THEN @
                               ELSE Append(@, spacer(FALSE)),
                    !.lastWasSpace = TRUE, !.i = i + 1]
    ELSE LET s1 == [st EXCEPT !.lastWasSpace = FALSE] IN
    IF At(format, i) # "%"
    THEN LET e == PScanLiteral(format, i)
         IN  PEmit(s1, stringField(Slice(format, i, e)), e)
    ELSE IF i + 1 < Len(format) /\ At(format, i + 1) = "%"
    THEN PEmit(s1, stringField(<<"%">>), i + 2)
    ELSE IF i + 1 >= Len(format)
    THEN PBreak(s1, stringField(MISSING_VERB))
    ELSE PStyle(format, s1,
                [i |-> i + 1, width |-> 0, rightAlign |-> FALSE,
                 key |-> <<>>, style |-> <<>>, styleSeen |-> FALSE,
                 keySeen |-> FALSE, widthSeen |-> FALSE])

\* The loop itself; steps counts the iterations taken (it is bounded by
\* the template's length when every iteration advances i).
RECURSIVE PLoop(_, _, _)
PLoop(format, st, steps) ==
    IF st.status # "run" THEN [st EXCEPT !.steps = steps]
    ELSE IF st.i >= Len(format)
    THEN [st EXCEPT !.status = "done", !.steps = steps]
    ELSE IF steps > Len(format)
    THEN [st EXCEPT !.status = "diverge", !.steps = steps]
    ELSE PLoop(format, PStep(format, st), steps + 1)

\* A variant that scans the template as it is given.
parseFormatUntrimmed(fmt) ==
    PLoop(fmt,
          [i |-> 0, fields |-> <<>>, headerFields |-> <<>>,
           lastWasSpace |-> FALSE, status |-> "run", steps |-> 0],
          0)

parseFormat(fmt) ==
    PLoop(StrTrimSpace(fmt),
          [i |-> 0, fields |-> <<>>, headerFields |-> <<>>,
           lastWasSpace |-> FALSE, status |-> "run", steps |-> 0],
          0)


(***************************************************************************)
(* Byte buffers (type buffer []byte).  A buffer is                         *)
(*   arr  the bytes of the backing array that have been written (from the  *)
(*        slice's first byte on); the rest of the array, up to cap, still  *)
(*        holds the zero bytes of its allocation,                          *)
(*   len  the slice's length,                                              *)
(*   cap  the slice's capacity.                                            *)
(***************************************************************************)
BufCap == 1024        \* make(buffer, 0, 1024)

NilBuf == [arr |-> <<>>, len |-> 0, cap |-> 0]
MakeBuf(c) == [arr |-> <<>>, len |-> 0, cap |-> c]

\* the bytes of the slice: b[0:len(b)]
Bytes(b) == SubSeq(b.arr, 1, b.len)

\* Go's size classes for small allocations (runtime/sizeclasses.go).
SizeClasses == <<8, 16, 24, 32, 48, 64, 80, 96, 112, 128, 144, 160, 176,
                 192, 208, 224, 240, 256>>

roundupsize(n) ==
    IF n > 256 THEN n
    ELSE SizeClasses[CHOOSE k \in 1..Len(SizeClasses) :
                        /\ SizeClasses[k] >= n
                        /\ \A j \in 1..(k - 1) : SizeClasses[j] < n]

\* runtime.growslice for a []byte: the capacity after an append that needs
\* `needed` bytes and does not fit in `old`.
growcap(old, needed) ==
    roundupsize(IF needed > old + old THEN needed
                ELSE IF old < 256 THEN old + old
                ELSE needed)

\* append(b, s...)
BufAppend(b, s) ==
    IF s = <<>> THEN b
    ELSE LET n == b.len + Len(s)
         IN  IF n <= b.cap
             THEN [b EXCEPT !.arr = Bytes(b) \o s \o SubSeq(b.arr, n + 1, Len(b.arr)),
                            !.len = n]
             ELSE [arr |-> Bytes(b) \o s, len |-> n, cap |-> growcap(b.cap, n)]

AppendByte(b, c) == BufAppend(b, <<c>>)
AppendString(b, s) == BufAppend(b, s)

\* buffer.Pad(n, c): append n copies of c
Pad(b, n, c) == BufAppend(b, Repeat(c, n))

\* b[:n] for n <= cap(b): bytes between the old length and n are whatever
\* the backing array holds.
Reslice(b, n) ==
    [b EXCEPT !.arr = IF n > Len(b.arr) THEN b.arr \o Repeat(NUL, n - Len(b.arr))
                      ELSE b.arr,
              !.len = n]

\* buffer.Reset: *b = (*b)[:0]
Reset(b) == [b EXCEPT !.len = 0]

\* bytes.TrimSpace: s[start:stop] without the leading and trailing white
\* space, and nil when s is all white space (or empty).  A slice that starts
\* later in its array has that much less capacity; for a buffer still on the
\* 1024-byte array of its allocation the loss is not counted (the lines of
\* the model are far shorter than what is left of such an array).
BufTrimSpace(b) ==
    LET s == Bytes(b)
        a == LeadingSpaces(s)
    IN  IF a = Len(s) THEN NilBuf
        ELSE [arr |-> SubSeq(b.arr, a + 1, Len(b.arr)),
              len |-> b.len - a - TrailingSpaces(s),
              cap |-> IF b.cap >= BufCap THEN b.cap ELSE b.cap - a]

Contains(s, c) == \E i \in 1..Len(s) : s[i] = c

(***************************************************************************)
(* The heap of shared arrays: mem[a] is the backing array with address a   *)
(* (its length is its capacity).  Handler.groups and encoder.groups are    *)
(* slices [a, len] on it (a = 0 is the nil slice); Handler.headerFields is *)
(* the address of an array of header fields.                               *)
(***************************************************************************)
NilSlice == [a |-> 0, len |-> 0]

SliceCap(mem, s) == IF s.a = 0 THEN 0 ELSE Len(mem[s.a])

\* the elements of the slice
Elems(mem, s) == IF s.a = 0 THEN <<>> ELSE SubSeq(mem[s.a], 1, s.len)

\* runtime.growslice for a []string: size classes 16, 32, 64, 128 bytes hold
\* 1, 2, 4, 8 strings.
growcapStr(old, needed) ==
    LET c == IF needed > old + old THEN needed ELSE old + old
    IN  IF c <= 1 THEN 1 ELSE IF c <= 2 THEN 2 ELSE IF c <= 4 THEN 4
        ELSE IF c <= 8 THEN 8 ELSE c

\* append(s, xs...) on the heap: returns the new heap and the new slice.
SliceAppend(mem, s, xs) ==
    IF xs = <<>> THEN [mem |-> mem, s |-> s]
    ELSE LET n == s.len + Len(xs)
         IN  IF n <= SliceCap(mem, s)
             THEN [mem |-> [mem EXCEPT ![s.a] =
                               SubSeq(@, 1, s.len) \o xs \o SubSeq(@, n + 1, Len(@))],
                   s |-> [s EXCEPT !.len = n]]
             ELSE LET c == growcapStr(SliceCap(mem, s), n)
                  IN  [mem |-> Append(mem, Elems(mem, s) \o xs
                                           \o Repeat(<<>>, c - n)),
                       s |-> [a |-> Len(mem) + 1, len |-> n]]

(***************************************************************************)
(* slog attributes and values.                                             *)
(***************************************************************************)
NilValue == [kind |-> "nil"]                        \* slog.Value{}
StringValue(s) == [kind |-> "string", s |-> s]
GroupValue(as) == [kind |-> "group", attrs |-> as]
LevelValue(l) == [kind |-> "level", l |-> l]        \* slog.AnyValue(slog.Level)
TimeValue(t) == [kind |-> "time", t |-> t]
SourceValue == [kind |-> "source"]                  \* slog.AnyValue(*slog.Source)

Attr(k, v) == [key |-> k, val |-> v]
String(k, s) == Attr(k, StringValue(s))
Group(k, as) == Attr(k, GroupValue(as))
EmptyAttr == Attr(<<>>, NilValue)                   \* slog.Attr{}

TimeKey == <<"t", "i", "m", "e">>
LevelKey == <<"l", "e", "v", "e", "l">>
MessageKey == <<"m", "s", "g">>
SourceKey == <<"s", "o", "u", "r", "c", "e">>

\* The text of a non-zero timestamp in opts.TimeFormat, and of the call-site
\* (file:line).
TimeText == <<"T">>
SourceText == <<"f", ":", "1">>
NilText == <<"<", "n", "i", "l", ">">>

RECURSIVE JoinWith(_, _)
JoinWith(names, sep) ==
    IF names = <<>> THEN <<>>
    ELSE IF Len(names) = 1 THEN names[1]
    ELSE names[1] \o sep \o JoinWith(Tail(names), sep)

(***************************************************************************)
(* The resolver hooks (opts.ReplaceAttr) the model configures:             *)
(*   "nil"    no hook,                                                     *)
(*   "path"   shows the group path it is handed in front of every string   *)
(*            value that has one,                                          *)
(*   "elide"  replaces every attribute with key x by the empty attribute.  *)
(***************************************************************************)
ReplaceAttr(hook, groups, a) ==
    CASE hook = "path" ->
            IF groups # <<>> /\ a.val.kind = "string"
            THEN [a EXCEPT !.val.s = JoinWith(groups, <<"/">>) \o <<"/">> \o @]
            ELSE a
      [] hook = "elide" -> IF a.key = <<"x">> THEN EmptyAttr ELSE a
      [] OTHER -> a


(***************************************************************************)
(* The encoder (src/encoding.go:24-30) and the machine the operations run  *)
(* on.  An encoder is                                                      *)
(*   h            the handler it works for (0 = nil),                      *)
(*   buf, attrBuf, multilineAttrBuf  its byte buffers,                     *)
(*   groups       its group path, a private slice [arr, len],              *)
(*   headerAttrs  the attribute captured for each header slot.             *)
(* A machine M is the heap (mem), the handlers (hs), the encoder the call  *)
(* borrowed (e), whether the call has panicked, and the list of the calls  *)
(* made to the resolver hook (log).                                        *)
(***************************************************************************)
IsEmptyValue(v) == v.kind = "nil"                    \* v.Equal(slog.Value{})
IsEmptyAttr(a) == a.key = <<>> /\ IsEmptyValue(a.val) \* a.Equal(slog.Attr{})

HandlerOf(M) == M.hs[M.e.h]
HookOf(M) == HandlerOf(M).opts.ReplaceAttr
HeaderFieldsOf(M) == M.mem[HandlerOf(M).headerFields]

\* opts.ReplaceAttr(groups, a), followed by a.Value.Resolve(); the call is
\* logged.
CallHook(M, groups, a) ==
    [M |-> [M EXCEPT !.log = Append(@, [groups |-> groups, key |-> a.key])],
     a |-> ReplaceAttr(HookOf(M), groups, a)]

\* The signed decimal of fmt's %+d.
SignedItoa(n) == IF n < 0 THEN <<"-">> \o Itoa(0 - n) ELSE <<"+">> \o Itoa(n)

LevelDebug == -4
LevelInfo == 0
LevelWarn == 4
LevelError == 8

\* A variant of the switch that takes a threshold only for the levels above
\* it.
levelTextAbove(l, abbreviated) ==
    LET base == IF l > LevelError THEN LevelError
                ELSE IF l > LevelWarn THEN LevelWarn
                ELSE IF l > LevelInfo THEN LevelInfo
                ELSE LevelDebug
        str == IF l > LevelError
               THEN (IF abbreviated THEN <<"E", "R", "R">>
                     ELSE <<"E", "R", "R", "O", "R">>)
               ELSE IF l > LevelWarn
               THEN (IF abbreviated THEN <<"W", "R", "N">>
                     ELSE <<"W", "A", "R", "N">>)
               ELSE IF l > LevelInfo
               THEN (IF abbreviated THEN <<"I", "N", "F">>
                     ELSE <<"I", "N", "F", "O">>)
               ELSE (IF abbreviated THEN <<"D", "B", "G">>
                     ELSE <<"D", "E", "B", "U", "G">>)
        delta == l - base
    IN  IF delta # 0 THEN str \o SignedItoa(delta) ELSE str

\* the name and the offset chosen by the switch of writeLevel,
\* src/encoding.go:349-387, and the text written when the level itself is
\* shown.
levelText(l, abbreviated) ==
    LET base == IF l >= LevelError THEN LevelError
                ELSE IF l >= LevelWarn THEN LevelWarn
                ELSE IF l >= LevelInfo THEN LevelInfo
                ELSE LevelDebug
        str == IF l >= LevelError
               THEN (IF abbreviated THEN <<"E", "R", "R">>
                     ELSE <<"E", "R", "R", "O", "R">>)
               ELSE IF l >= LevelWarn
               THEN (IF abbreviated THEN <<"W", "R", "N">>
                     ELSE <<"W", "A", "R", "N">>)
               ELSE IF l >= LevelInfo
               THEN (IF abbreviated THEN <<"I", "N", "F">>
                     ELSE <<"I", "N", "F", "O">>)
               ELSE (IF abbreviated THEN <<"D", "B", "G">>
                     ELSE <<"D", "E", "B", "U", "G">>)
        delta == l - base
    IN  IF delta # 0 THEN str \o SignedItoa(delta) ELSE str

\* the text writeValue appends for a value, src/encoding.go:277-315
ValueText(v) ==
    CASE v.kind = "string" -> v.s
      [] v.kind = "time" -> TimeText
      [] v.kind = "source" -> SourceText
      [] v.kind = "level" -> levelText(v.l, FALSE)
      [] OTHER -> NilText

writeValue(b, v) == AppendString(b, ValueText(v))

\* writeTimestamp after the hook, src/encoding.go:119-136
writeTimestampValue(r) ==
    IF IsEmptyValue(r.a.val) THEN r.M
    ELSE IF r.a.val.kind # "time"
    THEN [r.M EXCEPT !.e.buf = writeValue(@, r.a.val)]
    ELSE IF r.a.val.t = 0 THEN r.M
    ELSE [r.M EXCEPT !.e.buf = AppendString(@, TimeText)]

\* encoder.writeTimestamp on e.buf, src/encoding.go:109-140; t = 0 is the
\* zero time.
writeTimestamp(M, t) ==
    IF t = 0 THEN M
    ELSE IF HookOf(M) # "nil"
    THEN writeTimestampValue(CallHook(M, <<>>, Attr(TimeKey, TimeValue(t))))
    ELSE [M EXCEPT !.e.buf = AppendString(@, TimeText)]

\* a hooked value written as an attribute value, or elided when empty
writeHookedValue(r) ==
    IF IsEmptyValue(r.a.val) THEN r.M
    ELSE [r.M EXCEPT !.e.buf = writeValue(@, r.a.val)]

\* encoder.writeMessage on e.buf, src/encoding.go:142-161
writeMessage(M, level, msg) ==
    IF HookOf(M) # "nil"
    THEN writeHookedValue(CallHook(M, <<>>, String(MessageKey, msg)))
    ELSE [M EXCEPT !.e.buf = AppendString(@, msg)]

\* writeLevel after the hook, src/encoding.go:329-347
writeLevelValue(r, abbreviated) ==
    IF IsEmptyValue(r.a.val) THEN r.M
    ELSE IF r.a.val.kind = "level"
    THEN [r.M EXCEPT !.e.buf =
             AppendString(@, levelText(r.a.val.l, abbreviated))]
    ELSE [r.M EXCEPT !.e.buf = writeValue(@, r.a.val)]

\* encoder.writeLevel on e.buf, src/encoding.go:323-397
writeLevel(M, l, abbreviated) ==
    IF HookOf(M) # "nil"
    THEN writeLevelValue(CallHook(M, <<>>, Attr(LevelKey, LevelValue(l))),
                         abbreviated)
    ELSE [M EXCEPT !.e.buf = AppendString(@, levelText(l, abbreviated))]

\* step 3 of the right alignment of writeHeader: for i := 0; i < textLen; i++
\* { buf[len-1-i] = buf[l+textLen-1-i] }, on the bytes s of the buffer.
RECURSIVE ShiftRight(_, _, _, _)
ShiftRight(s, l, textLen, i) ==
    IF i >= textLen THEN s
    ELSE ShiftRight([s EXCEPT ![Len(s) - 1 - i + 1] = s[l + textLen - 1 - i + 1]],
                    l, textLen, i + 1)

\* step 4: for i := 0; i < remainingWidth; i++ { buf[l+i] = ' ' }
RECURSIVE FillLeft(_, _, _, _)
FillLeft(s, l, remainingWidth, i) ==
    IF i >= remainingWidth THEN s
    ELSE FillLeft([s EXCEPT ![l + i + 1] = " "], l, remainingWidth, i + 1)

\* the right alignment of writeHeader, src/encoding.go:201-215, on the
\* padded buffer b2
alignRight(b2, l, textLen, remainingWidth) ==
    [b2 EXCEPT !.arr = FillLeft(ShiftRight(Bytes(b2), l, textLen, 0),
                                l, remainingWidth, 0)
                       \o SubSeq(b2.arr, b2.len + 1, Len(b2.arr))]

\* "truncate or pad to required width", src/encoding.go:197-219: b1 is the
\* buffer with the value written, l the length before it.
fitWidth(b1, l, width, rightAlign) ==
    IF width <= 0 THEN b1
    ELSE IF l + width - b1.len < 0 THEN Reslice(b1, l + width)
    ELSE IF l + width - b1.len > 0
    THEN IF rightAlign
         THEN alignRight(Pad(b1, l + width - b1.len, " "), l, b1.len - l,
                         l + width - b1.len)
         ELSE Pad(b1, l + width - b1.len, " ")
    ELSE b1

\* writeHeader after the hook: r is the machine and the attribute.
writeHeaderValue(r, width, rightAlign) ==
    IF IsEmptyValue(r.a.val)
    THEN \* just pad as needed
         IF width > 0 THEN [r.M EXCEPT !.e.buf = Pad(@, width, " ")]
         ELSE r.M
    ELSE [r.M EXCEPT !.e.buf = fitWidth(writeValue(@, r.a.val), @.len,
                                        width, rightAlign)]

\* encoder.writeHeader on e.buf, src/encoding.go:177-222
writeHeader(M, a0, width, rightAlign) ==
    writeHeaderValue(IF a0.val.kind # "group" /\ HookOf(M) # "nil"
                     THEN CallHook(M, <<>>, a0)
                     ELSE [M |-> M, a |-> a0],
                     width, rightAlign)

\* The header slot that captures attribute a found under the prefix group:
\* the first slot with that key and prefix that has captured nothing yet in
\* this call (0 when there is none).
captureSlot(M, a, group) ==
    LET hfs == HeaderFieldsOf(M)
        ok(i) == /\ hfs[i].key = a.key
                 /\ hfs[i].groupPrefix = group
                 /\ IsEmptyAttr(M.e.headerAttrs[i])
    IN  IF \E i \in 1..Len(hfs) : ok(i)
        THEN CHOOSE i \in 1..Len(hfs) : ok(i) /\ \A j \in 1..(i - 1) : ~ok(j)
        ELSE 0

\* An attribute whose text holds a line break is moved from the flat buffer
\* to the multi-line buffer; offset is the length of the flat buffer before
\* the attribute was written.
moveMultiline(e, offset) ==
    LET span == SubSeq(Bytes(e.attrBuf), offset + 1, e.attrBuf.len)
    IN  IF Contains(span, "\n")
        THEN [e EXCEPT !.multilineAttrBuf = BufAppend(@, span),
                       !.attrBuf = Reslice(@, offset)]
        ELSE e

\* the text of one attribute in the flat buffer, src/encoding.go:258-274
writeAttrText(b, a, group) ==
    LET b1 == AppendByte(b, " ")
        b2 == IF group # <<>> THEN AppendByte(AppendString(b1, group), ".")
              ELSE b1
        b3 == AppendByte(AppendString(b2, a.key), "=")
    IN  writeValue(b3, a.val)

\* e.groups = append(e.groups, names...): the encoder's group path is a
\* private slice [arr, len]; names beyond len are stale.
appendGroups(g, names) ==
    [arr |-> SubSeq(g.arr, 1, g.len) \o names
             \o SubSeq(g.arr, g.len + Len(names) + 1, Len(g.arr)),
     len |-> g.len + Len(names)]

GroupPath(g) == SubSeq(g.arr, 1, g.len)

pushGroup(M, key) == [M EXCEPT !.e.groups = appendGroups(@, <<key>>)]

\* e.groups = e.groups[:len(e.groups)-1]
popGroup(M) == [M EXCEPT !.e.groups.len = @ - 1]

\* encoder.writeAttr, src/encoding.go:228-275, writing to e.attrBuf, with
\* the header capture and the multi-line diversion of encodeAttr.
RECURSIVE writeAttrs(_, _, _)

\* A variant of the group case that leaves the key of the group on the path.
writeGroupKeepingKey(M1, a, group) ==
    IF HookOf(M1) # "nil"
    THEN writeAttrs(pushGroup(M1, a.key), a.val.attrs,
                    IF group # <<>> THEN group \o <<".">> \o a.key
                    ELSE a.key)
    ELSE writeAttrs(M1, a.val.attrs,
                    IF group # <<>> THEN group \o <<".">> \o a.key
                    ELSE a.key)

\* the group case, src/encoding.go:241-256
writeGroup(M1, a, group) ==
    IF HookOf(M1) # "nil"
    THEN popGroup(writeAttrs(pushGroup(M1, a.key), a.val.attrs,
                             IF group # <<>> THEN group \o <<".">> \o a.key
                             ELSE a.key))
    ELSE writeAttrs(M1, a.val.attrs,
                    IF group # <<>> THEN group \o <<".">> \o a.key
                    ELSE a.key)

\* A variant of the leaf that leaves a captured attribute in the attribute
\* output too.
writeLeafAlsoPrinted(M1, a, group, slot) ==
    [M1 EXCEPT !.e = moveMultiline([@ EXCEPT !.attrBuf =
                                        writeAttrText(@, a, group)],
                                    @.attrBuf.len),
               !.e.headerAttrs = IF slot # 0 THEN [@ EXCEPT ![slot] = a] ELSE @]

\* a leaf attribute: captured by the header slot, or written to the flat
\* buffer (and moved to the multi-line buffer when it holds a line break)
writeLeaf(M1, a, group, slot) ==
    IF slot # 0
    THEN [M1 EXCEPT !.e.headerAttrs[slot] = a]
    ELSE [M1 EXCEPT !.e = moveMultiline([@ EXCEPT !.attrBuf =
                                            writeAttrText(@, a, group)],
                                        @.attrBuf.len)]

\* A variant that does not elide the empty attribute.
writeHookedKeepingEmpty(r, group) ==
    IF r.a.val.kind = "group" THEN writeGroup(r.M, r.a, group)
    ELSE writeLeaf(r.M, r.a, group, captureSlot(r.M, r.a, group))

\* writeAttr after the hook: r is the machine and the attribute.
writeHooked(r, group) ==
    IF IsEmptyAttr(r.a) THEN r.M
    ELSE IF r.a.val.kind = "group" THEN writeGroup(r.M, r.a, group)
    ELSE writeLeaf(r.M, r.a, group, captureSlot(r.M, r.a, group))

\* A variant of writeAttr that passes group attributes to the hook too.
writeAttrHookingGroups(M, a0, group) ==
    writeHooked(IF HookOf(M) # "nil"
                THEN CallHook(M, GroupPath(M.e.groups), a0)
                ELSE [M |-> M, a |-> a0],
                group)

writeAttr(M, a0, group) ==
    writeHooked(IF a0.val.kind # "group" /\ HookOf(M) # "nil"
                THEN CallHook(M, GroupPath(M.e.groups), a0)
                ELSE [M |-> M, a |-> a0],
                group)

\* for _, attr := range attrs { e.writeAttr(buf, attr, group) }
writeAttrs(M, attrs, group) ==
    IF attrs = <<>> THEN M
    ELSE writeAttrs(writeAttr(M, Head(attrs), group), Tail(attrs), group)

encodeAttr(M, groupPrefix, a) == writeAttr(M, a, groupPrefix)

\* encodeHeader renders the attribute a slot captured, which encodeAttr has
\* passed through the hook already: the text of writeHeader, without a
\* second call of the hook.
encodeHeader(M, a, width, rightAlign) ==
    writeHeaderValue([M |-> M, a |-> a], width, rightAlign)

encodeLevel(M, l, abbreviated) == writeLevel(M, l, abbreviated)
encodeMessage(M, level, msg) == writeMessage(M, level, msg)
encodeTimestamp(M, t) == writeTimestamp(M, t)

\* encodeSource: the call-site slot; src is the zero Source unless
\* AddSource is on and the record has a PC.
encodeSource(M, hasSrc) ==
    IF ~hasSrc THEN M
    ELSE IF HookOf(M) # "nil"
    THEN writeHookedValue(CallHook(M, <<>>, Attr(SourceKey, SourceValue)))
    ELSE [M EXCEPT !.e.buf = AppendString(@, SourceText)]


(***************************************************************************)
(* The encoder pool.                                                       *)
(***************************************************************************)
NilGroups == [arr |-> <<>>, len |-> 0]

\* encoderPool.New, src/encoding.go:13-21
NewEncoder ==
    [h |-> 0, buf |-> MakeBuf(BufCap), attrBuf |-> MakeBuf(BufCap),
     multilineAttrBuf |-> MakeBuf(BufCap), groups |-> NilGroups,
     headerAttrs |-> <<>>]

\* The capture array is sized to the handler's header catalog and cleared
\* when the encoder is borrowed.
growHeaderAttrs(e, n) == [e EXCEPT !.headerAttrs = [i \in 1..n |-> EmptyAttr]]

\* ... and emptied when the encoder is returned.
dropHeaderAttrs(e) == [e EXCEPT !.headerAttrs = <<>>]

\* newEncoder, src/encoding.go:32-39; pe is what encoderPool.Get returned.
newEncoder(mem, hs, hid, pe) ==
    growHeaderAttrs(
        IF hs[hid].opts.ReplaceAttr # "nil"
        THEN [pe EXCEPT !.h = hid,
                        !.groups = appendGroups(@, Elems(mem, hs[hid].groups))]
        ELSE [pe EXCEPT !.h = hid],
        Len(mem[hs[hid].headerFields]))

\* A variant of free that leaves the flat attribute buffer as it is.
freeKeepingAttrs(e) ==
    dropHeaderAttrs([e EXCEPT !.h = 0,
                              !.buf = Reset(@),
                              !.multilineAttrBuf = Reset(@),
                              !.groups.len = 0])

\* encoder.free, src/encoding.go:41-51: the encoder as it is Put in the pool.
free(e) ==
    dropHeaderAttrs([e EXCEPT !.h = 0,
                              !.buf = Reset(@),
                              !.attrBuf = Reset(@),
                              !.multilineAttrBuf = Reset(@),
                              !.groups.len = 0])

(***************************************************************************)
(* NewHandler.                                                             *)
(***************************************************************************)
\* The adjacency loop of NewHandler, src/handler.go:827-851; k is the
\* 1-based position of the instruction the loop is at.
RECURSIVE markHardSpaces(_, _, _, _)
markHardSpaces(fields, k, wasString, lastSpace) ==
    IF k > Len(fields) THEN fields
    ELSE LET f == fields[k] IN
         IF f.t \in {"header", "level", "message", "timestamp"}
         THEN markHardSpaces(fields, k + 1, FALSE, 0)
         ELSE IF f.t = "string"
         THEN markHardSpaces(IF lastSpace # 0
                             THEN [fields EXCEPT ![lastSpace] = spacer(TRUE)]
                             ELSE fields,
                             k + 1, TRUE, 0)
         ELSE IF f.t = "spacer"
         THEN markHardSpaces(IF wasString
                             THEN [fields EXCEPT ![k] = spacer(TRUE)]
                             ELSE fields,
                             k + 1, FALSE, k)
         ELSE markHardSpaces(fields, k + 1, wasString, lastSpace)

\* src/handler.go:853-861
sourceAsAttrOf(fields) == \A k \in 1..Len(fields) : fields[k].t # "source"

\* NewHandler for a template parseFormat compiles: the handler, whose
\* header catalog is the array at address hfAddr.
NewHandler(parsed, opts, hfAddr) ==
    LET fields == markHardSpaces(parsed.fields, 1, FALSE, 0)
    IN  [opts |-> opts,
         groupPrefix |-> <<>>,
         groups |-> NilSlice,
         context |-> <<>>,
         multilineContext |-> <<>>,
         fields |-> fields,
         headerFields |-> hfAddr,
         sourceAsAttr |-> sourceAsAttrOf(fields)]


(***************************************************************************)
(* Handle, src/handler.go:879-1031.  The interpreter state I is the        *)
(* machine M, the current encodeState (state), the stack of the enclosing  *)
(* groups' states and headerIdx.  Two history fields record what the       *)
(* elision of groups did: I.marks holds, for each open group, the bytes of *)
(* the line when it was opened, and M.elided lists, for each group rolled  *)
(* back, those bytes (atOpen) and the bytes of the line after the roll     *)
(* back (atClose).  I.pos is the position of the instruction at hand and   *)
(* M.printed the positions of the slots that wrote at least one byte.      *)
(***************************************************************************)
\* var state encodeState
ZeroState ==
    [groupStart |-> 0, printedField |-> FALSE, seenFields |-> 0,
     anchored |-> FALSE, pendingSpace |-> FALSE, pendingHardSpace |-> FALSE,
     style |-> <<>>]

\* case groupOpen, src/handler.go:914-921
doGroupOpen(I, f) ==
    [I EXCEPT !.stack = Append(@, I.state),
              !.marks = Append(@, Bytes(I.M.e.buf)),
              !.state = [I.state EXCEPT !.groupStart = I.M.e.buf.len,
                                        !.printedField = FALSE,
                                        !.seenFields = 0,
                                        !.style = f.style]]

\* enc.buf = enc.buf[:state.groupStart], src/handler.go:939: a slice
\* expression panics when the bound is past the capacity.
rollbackGroup(M, groupStart, mark) ==
    IF groupStart > M.e.buf.cap THEN [M EXCEPT !.panic = TRUE]
    ELSE LET b == Reslice(M.e.buf, groupStart)
         IN  [M EXCEPT !.e.buf = b,
                       !.elided = Append(@, [atOpen |-> mark,
                                             atClose |-> Bytes(b)])]

\* A variant of groupClose that keeps a group only when one of its slots
\* printed.
doGroupCloseUnlessPrinted(I) ==
    IF I.stack = <<>> THEN I
    ELSE IF I.state.printedField
    THEN [I EXCEPT !.state = [@ EXCEPT
                                !.groupStart = I.stack[Len(I.stack)].groupStart,
                                !.style = I.stack[Len(I.stack)].style,
                                !.seenFields = @ + I.stack[Len(I.stack)].seenFields],
                   !.stack = SubSeq(@, 1, Len(@) - 1),
                   !.marks = SubSeq(@, 1, Len(@) - 1)]
    ELSE [I EXCEPT !.M = rollbackGroup(@, I.state.groupStart,
                                       I.marks[Len(I.marks)]),
                   !.state = I.stack[Len(I.stack)],
                   !.stack = SubSeq(@, 1, Len(@) - 1),
                   !.marks = SubSeq(@, 1, Len(@) - 1)]

\* A variant of groupClose that, with no group open, rolls the line back to
\* the start mark of the top level when no slot has printed.
doGroupCloseAtTop(I) ==
    IF I.stack = <<>>
    THEN IF I.state.printedField \/ I.state.seenFields = 0 THEN I
         ELSE [I EXCEPT !.M.e.buf = Reslice(@, I.state.groupStart)]
    ELSE LET lastState == I.stack[Len(I.stack)]
             popped == SubSeq(I.stack, 1, Len(I.stack) - 1)
             marks == SubSeq(I.marks, 1, Len(I.marks) - 1)
         IN  IF I.state.printedField \/ I.state.seenFields = 0
             THEN [I EXCEPT !.state = [@ EXCEPT
                                         !.groupStart = lastState.groupStart,
                                         !.style = lastState.style,
                                         !.seenFields = @ + lastState.seenFields],
                            !.stack = popped,
                            !.marks = marks]
             ELSE [I EXCEPT !.M = rollbackGroup(@, I.state.groupStart,
                                                I.marks[Len(I.marks)]),
                            !.state = lastState,
                            !.stack = popped,
                            !.marks = marks]

\* case groupClose, src/handler.go:922-944
doGroupClose(I) ==
    IF I.stack = <<>> THEN I
    ELSE LET lastState == I.stack[Len(I.stack)]
             popped == SubSeq(I.stack, 1, Len(I.stack) - 1)
             marks == SubSeq(I.marks, 1, Len(I.marks) - 1)
         IN  IF I.state.printedField \/ I.state.seenFields = 0
             THEN [I EXCEPT !.state = [@ EXCEPT
                                         !.groupStart = lastState.groupStart,
                                         !.style = lastState.style,
                                         !.seenFields = @ + lastState.seenFields],
                            !.stack = popped,
                            !.marks = marks]
             ELSE [I EXCEPT !.M = rollbackGroup(@, I.state.groupStart,
                                                I.marks[Len(I.marks)]),
                            !.state = lastState,
                            !.stack = popped,
                            !.marks = marks]

\* A variant of the spacer that is queued at the start of the line too.
doSpacerAtStart(I, f) ==
    IF f.hard THEN [I EXCEPT !.state.pendingHardSpace = TRUE]
    ELSE [I EXCEPT !.state.pendingSpace = I.state.anchored]

\* case spacer, src/handler.go:945-959
doSpacer(I, f) ==
    IF I.M.e.buf.len = 0 THEN I
    ELSE IF f.hard THEN [I EXCEPT !.state.pendingHardSpace = TRUE]
    ELSE [I EXCEPT !.state.pendingSpace = I.state.anchored]

\* case string, src/handler.go:960-973
doString(I, f) ==
    [I EXCEPT !.M.e.buf = AppendString(IF I.state.pendingHardSpace
                                       THEN AppendByte(@, " ") ELSE @,
                                       f.s),
              !.state.pendingHardSpace = FALSE,
              !.state.pendingSpace = FALSE,
              !.state.anchored = FALSE]

\* A variant of the header slot that keeps the text of the captured value
\* as the memo of the handler's catalog entry.
doHeaderFieldStoringMemo(M, headerIdx) ==
    IF IsEmptyAttr(M.e.headerAttrs[headerIdx + 1])
    THEN [M EXCEPT !.e.buf =
             AppendString(@, HeaderFieldsOf(M)[headerIdx + 1].memo)]
    ELSE [encodeHeader(M, M.e.headerAttrs[headerIdx + 1],
                       HeaderFieldsOf(M)[headerIdx + 1].width,
                       HeaderFieldsOf(M)[headerIdx + 1].rightAlign)
          EXCEPT !.mem[HandlerOf(M).headerFields][headerIdx + 1].memo =
                     ValueText(M.e.headerAttrs[headerIdx + 1].val)]

\* A variant of the header slot that shows the memo whenever there is one.
doHeaderFieldMemoFirst(M, headerIdx) ==
    IF HeaderFieldsOf(M)[headerIdx + 1].memo # <<>>
    THEN [M EXCEPT !.e.buf =
             AppendString(@, HeaderFieldsOf(M)[headerIdx + 1].memo)]
    ELSE encodeHeader(M, M.e.headerAttrs[headerIdx + 1],
                      HeaderFieldsOf(M)[headerIdx + 1].width,
                      HeaderFieldsOf(M)[headerIdx + 1].rightAlign)

\* case headerField, src/handler.go:981-988
doHeaderField(M, headerIdx) ==
    IF /\ IsEmptyAttr(M.e.headerAttrs[headerIdx + 1])
       /\ HeaderFieldsOf(M)[headerIdx + 1].memo # <<>>
    THEN [M EXCEPT !.e.buf =
             AppendString(@, HeaderFieldsOf(M)[headerIdx + 1].memo)]
    ELSE encodeHeader(M, M.e.headerAttrs[headerIdx + 1],
                      HeaderFieldsOf(M)[headerIdx + 1].width,
                      HeaderFieldsOf(M)[headerIdx + 1].rightAlign)

\* case attrsField, src/handler.go:994-1003
trimAttrBufs(e) ==
    IF e.attrBuf.len > 0 THEN [e EXCEPT !.attrBuf = BufTrimSpace(@)]
    ELSE IF e.multilineAttrBuf.len > 0
    THEN [e EXCEPT !.multilineAttrBuf = BufTrimSpace(@)]
    ELSE e

appendAttrBufs(e) ==
    [e EXCEPT !.buf = BufAppend(BufAppend(@, Bytes(e.attrBuf)),
                                Bytes(e.multilineAttrBuf))]

doAttrsField(M) == [M EXCEPT !.e = appendAttrBufs(trimAttrBufs(@))]

\* "chop the last space", src/handler.go:1015-1020
chopLastSpace(b) == BufTrimSpace(b)

\* src/handler.go:975-977: the pending space is written before the slot
writePending(M, state) ==
    IF state.pendingSpace \/ state.pendingHardSpace
    THEN [M EXCEPT !.e.buf = AppendByte(@, " ")]
    ELSE M

\* the switch of src/handler.go:980-1007
writeSlot(M0, headerIdx, f, rec, hasSrc) ==
    CASE f.t = "header" -> doHeaderField(M0, headerIdx)
      [] f.t = "level" -> encodeLevel(M0, rec.level, f.abbreviated)
      [] f.t = "message" -> encodeMessage(M0, rec.level, rec.msg)
      [] f.t = "attrs" -> doAttrsField(M0)
      [] f.t = "source" -> encodeSource(M0, hasSrc)
      [] f.t = "timestamp" -> encodeTimestamp(M0, rec.time)

\* A variant of the slot bookkeeping that does not move on to the next header
\* slot.
afterSlotSameHeader(I, f, M1, printed) ==
    [I EXCEPT
       !.M = IF ~printed /\ (I.state.pendingSpace \/ I.state.pendingHardSpace)
             THEN [M1 EXCEPT !.e.buf = chopLastSpace(@)]
             ELSE IF printed THEN [M1 EXCEPT !.printed = @ \cup {I.pos}]
             ELSE M1,
       !.state = IF printed
                 THEN [@ EXCEPT !.seenFields = @ + 1,
                                !.printedField = TRUE,
                                !.pendingSpace = FALSE,
                                !.pendingHardSpace = FALSE,
                                !.anchored = TRUE]
                 ELSE [@ EXCEPT !.seenFields = @ + 1]]

\* A variant of the slot bookkeeping that moves on to the next header slot
\* only when the slot wrote something.
afterSlotNextIfPrinted(I, f, M1, printed) ==
    [I EXCEPT
       !.headerIdx = IF f.t = "header" /\ printed THEN @ + 1 ELSE @,
       !.M = IF ~printed /\ (I.state.pendingSpace \/ I.state.pendingHardSpace)
             THEN [M1 EXCEPT !.e.buf = chopLastSpace(@)]
             ELSE IF printed THEN [M1 EXCEPT !.printed = @ \cup {I.pos}]
             ELSE M1,
       !.state = IF printed
                 THEN [@ EXCEPT !.seenFields = @ + 1,
                                !.printedField = TRUE,
                                !.pendingSpace = FALSE,
                                !.pendingHardSpace = FALSE,
                                !.anchored = TRUE]
                 ELSE [@ EXCEPT !.seenFields = @ + 1]]

\* src/handler.go:1008-1020: M1 is the machine after the slot was written
\* and printed says whether it wrote anything.
afterSlot(I, f, M1, printed) ==
    [I EXCEPT
       !.headerIdx = IF f.t = "header" THEN @ + 1 ELSE @,
       !.M = IF ~printed /\ (I.state.pendingSpace \/ I.state.pendingHardSpace)
             THEN [M1 EXCEPT !.e.buf = chopLastSpace(@)]
             ELSE IF printed THEN [M1 EXCEPT !.printed = @ \cup {I.pos}]
             ELSE M1,
       !.state = IF printed
                 THEN [@ EXCEPT !.seenFields = @ + 1,
                                !.printedField = TRUE,
                                !.pendingSpace = FALSE,
                                !.pendingHardSpace = FALSE,
                                !.anchored = TRUE]
                 ELSE [@ EXCEPT !.seenFields = @ + 1]]

\* l := len(enc.buf) ... printed := len(enc.buf) > l
slotPrinted(I, f, l, M1) == afterSlot(I, f, M1, M1.e.buf.len > l)

slotFrom(I, f, rec, hasSrc, M0) ==
    slotPrinted(I, f, M0.e.buf.len, writeSlot(M0, I.headerIdx, f, rec, hasSrc))

\* the slot instructions, src/handler.go:975-1020
doSlot(I, f, rec, hasSrc) ==
    slotFrom(I, f, rec, hasSrc, writePending(I.M, I.state))

\* one iteration of for _, f := range h.fields
doField(I, f, rec, hasSrc) ==
    CASE f.t = "groupOpen" -> doGroupOpen(I, f)
      [] f.t = "groupClose" -> doGroupClose(I)
      [] f.t = "spacer" -> doSpacer(I, f)
      [] f.t = "string" -> doString(I, f)
      [] OTHER -> doSlot(I, f, rec, hasSrc)

RECURSIVE runFields(_, _, _, _, _)
runFields(I, fields, k, rec, hasSrc) ==
    IF k > Len(fields) \/ I.M.panic THEN I
    ELSE runFields(doField([I EXCEPT !.pos = k], fields[k], rec, hasSrc),
                   fields, k + 1, rec, hasSrc)

\* A variant that encodes the call-site under the handler's group prefix.
sourceAttrInGroups(M, hasSrc) ==
    IF hasSrc /\ HandlerOf(M).sourceAsAttr
    THEN [encodeAttr([M EXCEPT !.e.groups = NilGroups],
                     HandlerOf(M).groupPrefix, Attr(SourceKey, SourceValue))
          EXCEPT !.e.groups = M.e.groups]
    ELSE M

\* src/handler.go:884-905: the call-site as an attribute, the handler's
\* accumulated buffers, then the record's attributes.
sourceAttr(M, hasSrc) ==
    IF hasSrc /\ HandlerOf(M).sourceAsAttr
    THEN \* the source attr should not be inside any open groups
         [encodeAttr([M EXCEPT !.e.groups = NilGroups], <<>>,
                     Attr(SourceKey, SourceValue))
          EXCEPT !.e.groups = M.e.groups]
    ELSE M

appendContexts(M) ==
    [M EXCEPT !.e.attrBuf = BufAppend(@, HandlerOf(M).context),
              !.e.multilineAttrBuf = BufAppend(@, HandlerOf(M).multilineContext)]

encodeRecord(M, rec, hasSrc) ==
    writeAttrs(appendContexts(sourceAttr(M, hasSrc)), rec.attrs,
               HandlerOf(M).groupPrefix)

\* buffer.WriteTo(h.out): one Write of the whole buffer; res is the sink's
\* answer.  The call is appended to the machine's list of writes.
WriteTo(M, res) ==
    [M EXCEPT !.writes = Append(@, [data |-> Bytes(M.e.buf), res |-> res]),
              !.e.buf = IF res = "ok" THEN Reset(@) ELSE @]

\* The rendering part of Handle, up to the line terminator
\* (src/handler.go:880-1023), on the encoder pe taken from the pool.
Machine(mem, hs, e) ==
    [mem |-> mem, hs |-> hs, e |-> e, panic |-> FALSE, log |-> <<>>,
     writes |-> <<>>, elided |-> <<>>, printed |-> {}]

\* enc.buf.AppendByte('\n'), src/handler.go:1023
endLine(M) == IF M.panic THEN M ELSE [M EXCEPT !.e.buf = AppendByte(@, "\n")]

renderFields(M1, fields, rec, hasSrc) ==
    endLine(runFields([M |-> M1, state |-> ZeroState, stack |-> <<>>,
                       marks |-> <<>>, headerIdx |-> 0, pos |-> 0],
                      fields, 1, rec, hasSrc).M)

renderLine(mem, hs, hid, pe, rec) ==
    renderFields(encodeRecord(Machine(mem, hs, newEncoder(mem, hs, hid, pe)),
                              rec, hs[hid].opts.AddSource /\ rec.pc > 0),
                 hs[hid].fields, rec, hs[hid].opts.AddSource /\ rec.pc > 0)

\* A variant of the exit that drops the sink's error.
writtenIgnoringError(M1, res) ==
    [M |-> M1, ret |-> "nil", put |-> {free(M1.e)}]

\* The exit of Handle, src/handler.go:1025-1030, after the write: the result
\* is the machine, what Handle returns ("nil", "err" or "panic") and the
\* encoders put back in the pool.
written(M1, res) ==
    IF res # "ok"
    THEN [M |-> M1, ret |-> "err", put |-> {}]
    ELSE [M |-> M1, ret |-> "nil", put |-> {free(M1.e)}]

finishHandle(M, res) ==
    IF M.panic THEN [M |-> M, ret |-> "panic", put |-> {}]
    ELSE written(WriteTo(M, res), res)

Handle(mem, hs, hid, pe, rec, res) ==
    finishHandle(renderLine(mem, hs, hid, pe, rec), res)


(***************************************************************************)
(* WithAttrs, WithGroup and memoizeHeaders.                                *)
(***************************************************************************)
\* the loop of memoizeHeaders, src/handler.go:1109-1115, over the new array
\* at address addr; i is 1-based.
\* newFields[i].memo = enc.buf.String()
setMemo(M2, addr, i) == [M2 EXCEPT !.mem[addr][i].memo = Bytes(M2.e.buf)]

memoize(M1, addr, i) ==
    setMemo(encodeHeader(M1, M1.e.headerAttrs[i], M1.mem[addr][i].width,
                         M1.mem[addr][i].rightAlign),
            addr, i)

RECURSIVE memoizeLoop(_, _, _)
memoizeLoop(M, addr, i) ==
    IF i > Len(M.mem[addr]) THEN M
    ELSE IF ~IsEmptyAttr(M.e.headerAttrs[i])
    THEN memoizeLoop(memoize([M EXCEPT !.e.buf = Reset(@)], addr, i),
                     addr, i + 1)
    ELSE memoizeLoop(M, addr, i + 1)

\* A variant of memoizeHeaders that writes the memos into the array it is
\* handed instead of a copy.
memoizeHeadersInPlace(M, headerFields) ==
    [M |-> memoizeLoop(M, headerFields, 1), addr |-> headerFields]

\* memoizeHeaders, src/handler.go:1105-1117: the machine after it and the
\* address of the array it returns.
memoizeHeaders(M, headerFields) ==
    [M |-> memoizeLoop([M EXCEPT !.mem = Append(@, M.mem[headerFields])],
                       Len(M.mem) + 1, 1),
     addr |-> Len(M.mem) + 1]

\* A variant that starts the new context from the encoder's buffer alone.
appendContextAnew(ctx, b) == IF b.len > 0 THEN Bytes(b) ELSE ctx

\* newCtx = slices.Clip(append(newCtx, buf...)), src/handler.go:1062-1069.
\* A handler's context buffers are nil or clipped (capacity = length), so
\* the append always copies into a new array; they are held by value.
appendContext(ctx, b) == IF b.len > 0 THEN ctx \o Bytes(b) ELSE ctx

\* Handler.WithAttrs, src/handler.go:1051-1084, on the encoder pe taken from
\* the pool: the heap and the handlers after it (the new handler is the
\* last one) and the encoders put back in the pool.
withAttrsHandler(h, mz) ==
    [opts |-> h.opts,
     groupPrefix |-> h.groupPrefix,
     groups |-> h.groups,
     context |-> appendContext(h.context, mz.M.e.attrBuf),
     multilineContext |->
         appendContext(h.multilineContext, mz.M.e.multilineAttrBuf),
     fields |-> h.fields,
     headerFields |-> mz.addr,
     sourceAsAttr |-> h.sourceAsAttr]

withAttrsResult(h, mz) ==
    [mem |-> mz.M.mem, hs |-> Append(mz.M.hs, withAttrsHandler(h, mz)),
     put |-> {free(mz.M.e)}]

\* A variant of WithAttrs that encodes the attributes without the handler's
\* group prefix.
WithAttrsUnprefixed(mem, hs, hid, pe, attrs) ==
    withAttrsResult(
        hs[hid],
        memoizeHeaders(writeAttrs(Machine(mem, hs, newEncoder(mem, hs, hid, pe)),
                                  attrs, <<>>),
                       hs[hid].headerFields))

WithAttrs(mem, hs, hid, pe, attrs) ==
    withAttrsResult(
        hs[hid],
        memoizeHeaders(writeAttrs(Machine(mem, hs, newEncoder(mem, hs, hid, pe)),
                                  attrs, hs[hid].groupPrefix),
                       hs[hid].headerFields))

\* groups: append(h.groups, name), src/handler.go:1098
appendGroupName(mem, groups, name) == SliceAppend(mem, groups, <<name>>)

\* Handler.WithGroup, src/handler.go:1087-1103.  The struct literal sets no
\* multilineContext, so the new handler's is nil.
withGroupHandler(h, name, groups) ==
    [opts |-> h.opts,
     groupPrefix |-> IF h.groupPrefix # <<>>
                     THEN h.groupPrefix \o <<".">> \o name
                     ELSE name,
     groups |-> groups,
     context |-> h.context,
     multilineContext |-> <<>>,
     fields |-> h.fields,
     headerFields |-> h.headerFields,
     sourceAsAttr |-> h.sourceAsAttr]

withGroupResult(hs, h, name, r) ==
    [mem |-> r.mem, hs |-> Append(hs, withGroupHandler(h, name, r.s))]

WithGroup(mem, hs, hid, name0) ==
    withGroupResult(hs, hs[hid], StrTrimSpace(name0),
                    appendGroupName(mem, hs[hid].groups, StrTrimSpace(name0)))

\* What a handler holds, read through its slices.
Snapshot(mem, h) ==
    [groupPrefix |-> h.groupPrefix,
     groups |-> Elems(mem, h.groups),
     context |-> h.context,
     multilineContext |-> h.multilineContext,
     fields |-> h.fields,
     headerFields |-> mem[h.headerFields]]


(***************************************************************************)
(* The state.                                                              *)
(*   tpl, parsed  the template handed to parseFormat and what it returned  *)
(*                (status "none" before the call),                         *)
(*   mem          the heap of shared arrays,                               *)
(*   handlers     the handlers alive, in the order of their creation,      *)
(*   born         for each handler, how it was made and what it held then, *)
(*   pool         the idle encoders of encoderPool,                        *)
(*   last         the last call made and what it did,                      *)
(* and, for the concurrent callers of SpecConc, where the encoders have an *)
(* identity,                                                               *)
(*   encs         the encoders encoderPool.New has made,                   *)
(*   idle         those of them that are in the pool,                      *)
(*   thr          each caller: where it is in Handle (pc), the encoder it  *)
(*                holds (enc, 0 = none), its record and its sink's answer, *)
(*                the line it wrote, what Handle returned and the number   *)
(*                of calls it has made.                                    *)
(***************************************************************************)
VARIABLES tpl, parsed, mem, handlers, born, pool, last, encs, idle, thr

vars == <<tpl, parsed, mem, handlers, born, pool, last, encs, idle, thr>>
seqVars == <<tpl, parsed, mem, handlers, born, pool, last>>
concVars == <<encs, idle, thr>>

(***************************************************************************)
(* Inputs.                                                                 *)
(***************************************************************************)
\* the bytes of the enumerated templates
FmtAlphabet == {"%", " ", "(", ")", "[", "]", "-", "1", "h", "m", "{", "}", "k"}

SeqsUpTo(S, n) == UNION {[1..k -> S] : k \in 0..n}

\* templates that end right after a modifier, and others with long names
NamedFormats ==
    { <<"%", "(", "s", "o", "u", "r", "c", "e", ")">>,
      <<"%", "[", "k", "e", "y", "]">>,
      <<"%", "[", "k", "e", "y", "]", "1", "0">>,
      <<"%", "[", "k", "e", "y", "]", "-">>,
      <<"%", "(", "s", "o", "u", "r", "c", "e", ")", "{", "x", "%", "}">>,
      <<"%", "(", "b", "a", "d", ")", "{", "x", "%", "}">>,
      <<"%", "[", "g", ".", "k", "]", "-", "1", "0", "h", " ", "%", "1", "2", "m">> }

Formats == SeqsUpTo(FmtAlphabet, MaxFmtLen) \cup NamedFormats

\* "%l %{%[f]h > %} %m"
TplGroup ==
    <<"%", "l", " ", "%", "{", "%", "[", "f", "]", "h", " ", ">", " ", "%", "}",
      " ", "%", "m">>
\* "%m %{%[f]h:%} %a"
TplAfterMsg ==
    <<"%", "m", " ", "%", "{", "%", "[", "f", "]", "h", ":", "%", "}", " ",
      "%", "a">>
\* "%[f]2h %{[%[b]h]%} %m"
TplWidth ==
    <<"%", "[", "f", "]", "2", "h", " ", "%", "{", "[", "%", "[", "b", "]",
      "h", "]", "%", "}", " ", "%", "m">>
\* "%l %[f]h > %m %a"
TplHeader ==
    <<"%", "l", " ", "%", "[", "f", "]", "h", " ", ">", " ", "%", "m", " ",
      "%", "a">>

\* "%[f]2h %{%[b]h%} %m"
TplPad ==
    <<"%", "[", "f", "]", "2", "h", " ", "%", "{", "%", "[", "b", "]", "h",
      "%", "}", " ", "%", "m">>

Templates == {TplGroup, TplAfterMsg, TplWidth, TplPad}
ChainTemplates == {TplHeader}

NoHook == [ReplaceAttr |-> "nil", AddSource |-> FALSE]
PathHook == [ReplaceAttr |-> "path", AddSource |-> FALSE]

Options == {NoHook, PathHook}
ChainOptions == {NoHook, PathHook}

Rec(msg, attrs) ==
    [time |-> 0, level |-> LevelInfo, msg |-> msg, pc |-> 0, attrs |-> attrs]

AttrF == String(<<"f">>, <<"v">>)
AttrY == String(<<"y">>, <<"1">>)
AttrZ == String(<<"z">>, <<"a", "\n", "b">>)
AttrX == String(<<"x">>, <<"2">>)

Messages == {<<"h", "i">>, <<" ", " ", "m">>, <<"m", "\n">>}

Records == {Rec(m, as) : m \in Messages, as \in {<<>>, <<AttrF>>}}
ChainRecords == {Rec(<<"h", "i">>, as) : as \in {<<AttrY>>, <<AttrF, AttrY>>}}

AttachLists == {<<AttrF>>, <<String(<<"f">>, <<"w">>), AttrX, AttrZ>>}
GroupNames == {<<"g">>, <<"k">>}

\* what the sink's Write answers
SinkResults == {"ok", "err"}

(***************************************************************************)
(* Actions.                                                                *)
(***************************************************************************)
\* encoderPool.Get: an idle encoder, or a new one.
Borrowable == pool \cup (IF Cardinality(pool) < MaxPool \/ pool = {}
                         THEN {NewEncoder} ELSE {})

Birth(parent, op, arg, m, h) ==
    [parent |-> parent, op |-> op, arg |-> arg, snap |-> Snapshot(m, h)]

InitFor(T, O) ==
    /\ tpl \in T
    /\ parsed = parseFormat(tpl)
    /\ mem = <<parsed.headerFields>>
    /\ \E o \in O : handlers = <<NewHandler(parsed, o, 1)>>
    /\ born = <<Birth(0, "NewHandler", <<>>, mem, handlers[1])>>
    /\ pool = {}
    /\ last = [op |-> "NewHandler"]
    /\ encs = <<>>
    /\ idle = {}
    /\ thr = <<>>

Handled(hid, rec, res, pe, r) ==
    /\ mem' = r.M.mem
    /\ handlers' = r.M.hs
    /\ pool' = (pool \ {pe}) \cup r.put
    /\ last' = [op |-> "Handle", h |-> hid, rec |-> rec, res |-> res,
                ret |-> r.ret, writes |-> r.M.writes, put |-> r.put # {},
                reused |-> pe # NewEncoder,
                log |-> r.M.log, elided |-> r.M.elided,
                printed |-> r.M.printed]
    /\ UNCHANGED <<tpl, parsed, born, concVars>>

DoHandle(hid, rec, res, pe) ==
    Handled(hid, rec, res, pe, Handle(mem, handlers, hid, pe, rec, res))

Derived(hid, op, arg, m, hs) ==
    /\ mem' = m
    /\ handlers' = hs
    /\ born' = Append(born, Birth(hid, op, arg, m, hs[Len(hs)]))
    /\ UNCHANGED <<tpl, parsed, concVars>>

AttrsAttached(hid, attrs, pe, r) ==
    /\ Derived(hid, "WithAttrs", attrs, r.mem, r.hs)
    /\ pool' = (pool \ {pe}) \cup r.put
    /\ last' = [op |-> "WithAttrs", put |-> r.put # {}]

DoWithAttrs(hid, attrs, pe) ==
    AttrsAttached(hid, attrs, pe, WithAttrs(mem, handlers, hid, pe, attrs))

GroupOpened(hid, name, r) ==
    /\ Derived(hid, "WithGroup", name, r.mem, r.hs)
    /\ last' = [op |-> "WithGroup"]
    /\ UNCHANGED pool

DoWithGroup(hid, name) ==
    GroupOpened(hid, name, WithGroup(mem, handlers, hid, name))

HandleStep(R, S) ==
    \E hid \in 1..Len(handlers), rec \in R, res \in S,
       pe \in Borrowable :
        DoHandle(hid, rec, res, pe)

WithAttrsStep(n) ==
    /\ Len(handlers) < n
    /\ \E hid \in 1..Len(handlers), attrs \in AttachLists, pe \in Borrowable :
        DoWithAttrs(hid, attrs, pe)

WithGroupStep(n, names) ==
    /\ Len(handlers) < n
    /\ \E hid \in 1..Len(handlers), name \in names :
        DoWithGroup(hid, name)

(***************************************************************************)
(* Spec: one handler made by NewHandler, any sequence of Handle calls.     *)
(***************************************************************************)
Init == InitFor(Templates, Options)
Next == HandleStep(Records, SinkResults)
Spec == Init /\ [][Next]_vars

(***************************************************************************)
(* SpecChain: handlers derived by WithAttrs and WithGroup, and Handle      *)
(* calls on any of them.                                                   *)
(***************************************************************************)
InitChain == InitFor(ChainTemplates, ChainOptions)
NextChain ==
    \/ HandleStep(ChainRecords, SinkResults)
    \/ WithAttrsStep(MaxHandlers)
    \/ WithGroupStep(MaxHandlers, {<<"g">>})
SpecChain == InitChain /\ [][NextChain]_vars

(***************************************************************************)
(* SpecGroups: deeper chains of WithGroup (the fourth group name is the    *)
(* first that append writes into an array shared with the parent), with    *)
(* WithAttrs on the first handlers.                                        *)
(***************************************************************************)
NextGroups ==
    \/ WithAttrsStep(MaxHandlers)
    \/ WithGroupStep(MaxGroupHandlers, GroupNames)
SpecGroups == InitChain /\ [][NextGroups]_vars

(***************************************************************************)
(* SpecConc: MaxThreads callers run Handle on the one handler NewHandler   *)
(* made, each call in the steps that touch the pool, the encoder or the    *)
(* sink: newEncoder (on an idle encoder or a new one), the encoding of the *)
(* record's attributes, the run of the instructions, the write, free.      *)
(***************************************************************************)
\* A variant of Get that hands out the encoder and leaves it in the pool.
poolGetKeeps(p, id) == p

\* encoderPool.Get(), src/encoding.go:33: the encoder leaves the pool
poolGet(p, id) == p \ {id}

\* encoderPool.Put(e), src/encoding.go:50
poolPut(p, id) == p \cup {id}

Caller ==
    [pc |-> "idle", enc |-> 0, rec |-> Rec(<<>>, <<>>), res |-> "ok",
     line |-> <<>>, ret |-> "none", n |-> 0]

InitConc ==
    /\ tpl \in ChainTemplates
    /\ parsed = parseFormat(tpl)
    /\ mem = <<parsed.headerFields>>
    /\ \E o \in ChainOptions : handlers = <<NewHandler(parsed, o, 1)>>
    /\ born = <<Birth(0, "NewHandler", <<>>, mem, handlers[1])>>
    /\ pool = {}
    /\ last = [op |-> "NewHandler"]
    /\ encs = <<>>
    /\ idle = {}
    /\ thr = [t \in 1..MaxThreads |-> Caller]

HasSrc(rec) == handlers[1].opts.AddSource /\ rec.pc > 0

Started(t, id, rec, res) ==
    thr' = [thr EXCEPT ![t] = [pc |-> "encode", enc |-> id, rec |-> rec,
                               res |-> res, line |-> <<>>, ret |-> "none",
                               n |-> @.n + 1]]

\* enc := newEncoder(h), on an encoder of the pool
GetIdle(t) ==
    /\ thr[t].pc = "idle"
    /\ thr[t].n < MaxCalls
    /\ \E id \in idle, rec \in ChainRecords, res \in SinkResults :
        /\ idle' = poolGet(idle, id)
        /\ encs' = [encs EXCEPT ![id] = newEncoder(mem, handlers, 1, @)]
        /\ Started(t, id, rec, res)
    /\ UNCHANGED seqVars

\* enc := newEncoder(h), on an encoder encoderPool.New makes
GetNew(t) ==
    /\ thr[t].pc = "idle"
    /\ thr[t].n < MaxCalls
    /\ \E rec \in ChainRecords, res \in SinkResults :
        /\ encs' = Append(encs, newEncoder(mem, handlers, 1, NewEncoder))
        /\ Started(t, Len(encs) + 1, rec, res)
    /\ UNCHANGED <<seqVars, idle>>

\* src/handler.go:884-905
Encode(t) ==
    /\ thr[t].pc = "encode"
    /\ encs' = [encs EXCEPT ![thr[t].enc] =
                   encodeRecord(Machine(mem, handlers, @), thr[t].rec,
                                HasSrc(thr[t].rec)).e]
    /\ thr' = [thr EXCEPT ![t].pc = "fields"]
    /\ UNCHANGED <<seqVars, idle>>

Ran(t, M) ==
    /\ encs' = [encs EXCEPT ![thr[t].enc] = M.e]
    /\ thr' = [thr EXCEPT ![t].pc = IF M.panic THEN "idle" ELSE "write",
                          ![t].ret = IF M.panic THEN "panic" ELSE @,
                          ![t].enc = IF M.panic THEN 0 ELSE @]

\* src/handler.go:907-1023
Fields(t) ==
    /\ thr[t].pc = "fields"
    /\ Ran(t, renderFields(Machine(mem, handlers, encs[thr[t].enc]),
                           handlers[1].fields, thr[t].rec, HasSrc(thr[t].rec)))
    /\ UNCHANGED <<seqVars, idle>>

Wrote(t, M) ==
    /\ encs' = [encs EXCEPT ![thr[t].enc] = M.e]
    /\ thr' = [thr EXCEPT ![t].line = M.writes[1].data,
                          ![t].pc = IF thr[t].res = "ok" THEN "free" ELSE "idle",
                          ![t].ret = IF thr[t].res = "ok" THEN @ ELSE "err",
                          ![t].enc = IF thr[t].res = "ok" THEN @ ELSE 0]

\* src/handler.go:1025-1027
Write(t) ==
    /\ thr[t].pc = "write"
    /\ Wrote(t, WriteTo(Machine(mem, handlers, encs[thr[t].enc]), thr[t].res))
    /\ UNCHANGED <<seqVars, idle>>

\* src/handler.go:1029-1030
Free(t) ==
    /\ thr[t].pc = "free"
    /\ encs' = [encs EXCEPT ![thr[t].enc] = free(@)]
    /\ idle' = poolPut(idle, thr[t].enc)
    /\ thr' = [thr EXCEPT ![t].pc = "idle", ![t].ret = "nil", ![t].enc = 0]
    /\ UNCHANGED seqVars

NextConc ==
    \E t \in 1..MaxThreads :
        \/ GetIdle(t)
        \/ GetNew(t)
        \/ Encode(t)
        \/ Fields(t)
        \/ Write(t)
        \/ Free(t)
SpecConc == InitConc /\ [][NextConc]_vars

(***************************************************************************)
(* SpecParse: parseFormat on every template of Formats.                    *)
(***************************************************************************)
InitParse ==
    /\ tpl \in Formats
    /\ parsed = [status |-> "none"]
    /\ mem = <<>>
    /\ handlers = <<>>
    /\ born = <<>>
    /\ pool = {}
    /\ last = [op |-> "none"]
    /\ encs = <<>>
    /\ idle = {}
    /\ thr = <<>>

Parse ==
    /\ parsed.status = "none"
    /\ parsed' = parseFormat(tpl)
    /\ last' = [op |-> "parseFormat"]
    /\ UNCHANGED <<tpl, mem, handlers, born, pool, concVars>>

NextParse == Parse
SpecParse == InitParse /\ [][NextParse]_vars

(***************************************************************************)
(* SpecElide: Handle calls on templates with literal-only and nested       *)
(* groups.                                                                 *)
(***************************************************************************)
\* "%l %{[x]%} %m"
TplLiteral ==
    <<"%", "l", " ", "%", "{", "[", "x", "]", "%", "}", " ", "%", "m">>
\* "%{x%} %{%[f]h%} %m"
TplLiteralFirst ==
    <<"%", "{", "x", "%", "}", " ", "%", "{", "%", "[", "f", "]", "h", "%",
      "}", " ", "%", "m">>
\* "%{[ %{%[a]h%} ]%} %m"
TplBrackets ==
    <<"%", "{", "[", " ", "%", "{", "%", "[", "a", "]", "h", "%", "}", " ",
      "]", "%", "}", " ", "%", "m">>
\* "%{%[f]h %{x%}%} %m"
TplLiteralInside ==
    <<"%", "{", "%", "[", "f", "]", "h", " ", "%", "{", "x", "%", "}", "%",
      "}", " ", "%", "m">>
\* "%{%[f]h %{%[a]h%} >%} %m"
TplNested ==
    <<"%", "{", "%", "[", "f", "]", "h", " ", "%", "{", "%", "[", "a", "]",
      "h", "%", "}", " ", ">", "%", "}", " ", "%", "m">>
\* "%{<%{%{%[a]h%}%}>%} %m"
TplDeep ==
    <<"%", "{", "<", "%", "{", "%", "{", "%", "[", "a", "]", "h", "%", "}",
      "%", "}", ">", "%", "}", " ", "%", "m">>

ElideTemplates ==
    {TplLiteral, TplLiteralFirst, TplBrackets, TplLiteralInside, TplNested,
     TplDeep}

AttrA == String(<<"a">>, <<"1">>)
ElideRecords ==
    {Rec(<<"h", "i">>, as) : as \in {<<>>, <<AttrA>>, <<AttrF>>, <<AttrA, AttrF>>}}

InitElide == InitFor(ElideTemplates, Options)
NextElide == HandleStep(ElideRecords, {"ok"})
SpecElide == InitElide /\ [][NextElide]_vars

(***************************************************************************)
(* SpecLayout: Handle calls on the templates made of at most MaxTokens     *)
(* slots, groups and literals separated by single spaces.                  *)
(***************************************************************************)
MaxTokens == 3

LayoutTokens ==
    { <<"%", "l">>,
      <<"%", "m">>,
      <<"%", "t">>,
      <<"%", "[", "f", "]", "h">>,
      <<"%", "a">>,
      <<">">>,
      <<"%", "{", "%", "[", "a", "]", "h", "%", "}">>,
      <<"%", "{", ">", " ", "%", "[", "f", "]", "h", "%", "}">>,
      <<"%", "[", "b", "]", "2", "h">> }

\* "%l %[f]h %[a]h > %m"
TplTwoHeaders ==
    <<"%", "l", " ", "%", "[", "f", "]", "h", " ", "%", "[", "a", "]", "h",
      " ", ">", " ", "%", "m">>

LayoutTemplates ==
    {JoinWith(ts, <<" ">>) : ts \in SeqsUpTo(LayoutTokens, MaxTokens) \ {<<>>}}
    \cup {TplTwoHeaders}

LayoutRecords ==
    {[Rec(<<"h", "i">>, as) EXCEPT !.time = t] :
        t \in {0, 1}, as \in {<<>>, <<AttrF>>, <<AttrA, AttrY>>}}
    \cup {Rec(<<>>, <<>>)}

InitLayout == InitFor(LayoutTemplates, {NoHook})
NextLayout == HandleStep(LayoutRecords, {"ok"})
SpecLayout == InitLayout /\ [][NextLayout]_vars

(***************************************************************************)
(* SpecHeader: Handle calls on templates with header slots, for records    *)
(* that carry the attributes in every order.                               *)
(***************************************************************************)
\* "%[a]h %[f]h > %m %a"
TplSlots ==
    <<"%", "[", "a", "]", "h", " ", "%", "[", "f", "]", "h", " ", ">", " ",
      "%", "m", " ", "%", "a">>
\* "%m %a > %[f]h %[a]h"
TplSlotsLast ==
    <<"%", "m", " ", "%", "a", " ", ">", " ", "%", "[", "f", "]", "h", " ",
      "%", "[", "a", "]", "h">>
\* "%[f]h %[f]h > %m %a"
TplSameKey ==
    <<"%", "[", "f", "]", "h", " ", "%", "[", "f", "]", "h", " ", ">", " ",
      "%", "m", " ", "%", "a">>

HeaderTemplates == {TplSlots, TplSlotsLast, TplSameKey}

MaxAttrs == 2
AttrW == String(<<"f">>, <<"w">>)

\* the attribute lists without repetition
AttrLists ==
    {as \in SeqsUpTo({AttrA, AttrF, AttrW, AttrY}, MaxAttrs) :
        \A i, j \in 1..Len(as) : i # j => as[i] # as[j]}

HeaderRecords == {Rec(<<"h", "i">>, as) : as \in AttrLists}

InitHeader == InitFor(HeaderTemplates, Options)
NextHeader == HandleStep(HeaderRecords, {"ok"})
SpecHeader == InitHeader /\ [][NextHeader]_vars

(***************************************************************************)
(* SpecPrefix: WithGroup and Handle calls on templates whose header slot   *)
(* names a key with and without a group prefix, for records that carry the *)
(* attribute at the top level and inside group attributes.                 *)
(***************************************************************************)
\* "%[f]h > %m %a"
TplKey ==
    <<"%", "[", "f", "]", "h", " ", ">", " ", "%", "m", " ", "%", "a">>
\* "%[g.f]h > %m %a"
TplInGroup ==
    <<"%", "[", "g", ".", "f", "]", "h", " ", ">", " ", "%", "m", " ", "%",
      "a">>
\* "%[g.k.f]h > %m %a"
TplInGroups ==
    <<"%", "[", "g", ".", "k", ".", "f", "]", "h", " ", ">", " ", "%", "m",
      " ", "%", "a">>

PrefixTemplates == {TplKey, TplInGroup, TplInGroups}

\* the attribute f inside group attributes named by path, outermost first
RECURSIVE Nested(_)
Nested(path) ==
    IF path = <<>> THEN AttrF ELSE Group(Head(path), <<Nested(Tail(path))>>)

PrefixRecords ==
    {Rec(<<"h", "i">>, <<Nested(p)>>) :
        p \in {<<>>, <<<<"g">>>>, <<<<"k">>>>, <<<<"g">>, <<"k">>>>}}

InitPrefix == InitFor(PrefixTemplates, {NoHook})
NextPrefix ==
    \/ WithGroupStep(MaxHandlers, GroupNames)
    \/ HandleStep(PrefixRecords, {"ok"})
SpecPrefix == InitPrefix /\ [][NextPrefix]_vars

(***************************************************************************)
(* SpecWidth: Handle calls on templates with a fixed-width header slot,    *)
(* for values shorter than, as long as and longer than the width.          *)
(***************************************************************************)
\* "%l %[f]3h > %m"
TplLeft ==
    <<"%", "l", " ", "%", "[", "f", "]", "3", "h", " ", ">", " ", "%", "m">>
\* "%l %[f]-3h > %m"
TplRight ==
    <<"%", "l", " ", "%", "[", "f", "]", "-", "3", "h", " ", ">", " ", "%",
      "m">>
\* "%l %[f]3h %[a]h"
TplLeftThenSlot ==
    <<"%", "l", " ", "%", "[", "f", "]", "3", "h", " ", "%", "[", "a", "]",
      "h">>
\* "%[f]-3h %[a]h"
TplRightFirst ==
    <<"%", "[", "f", "]", "-", "3", "h", " ", "%", "[", "a", "]", "h">>

WidthTemplates == {TplLeft, TplRight, TplLeftThenSlot, TplRightFirst}

WidthValues ==
    {<<>>, <<"v">>, <<"v", "w">>, <<"v", "w", "x">>, <<"v", "w", "x", "y">>}

WidthRecords ==
    {Rec(<<"h", "i">>, as) :
        as \in {<<>>, <<AttrA>>}
               \cup {<<String(<<"f">>, v)>> : v \in WidthValues}
               \cup {<<AttrA, String(<<"f">>, v)>> : v \in WidthValues}}

InitWidth == InitFor(WidthTemplates, {NoHook})
NextWidth == HandleStep(WidthRecords, {"ok"})
SpecWidth == InitWidth /\ [][NextWidth]_vars

(***************************************************************************)
(* SpecDiag: parseFormat on malformed constructs, alone and between well   *)
(* formed ones.                                                            *)
(***************************************************************************)
\* the malformed constructs (c) with the literal listed for each (d)
Malformed ==
    { \* "%k" -> "%!k(INVALID_VERB)"
      [c |-> <<"%", "k">>,
       d |-> <<"%", "!", "k", "(", "I", "N", "V", "A", "L", "I", "D", "_", "V", "E", "R", "B", ")">>],
      \* "%)" -> "%!)(INVALID_VERB)"
      [c |-> <<"%", ")">>,
       d |-> <<"%", "!", ")", "(", "I", "N", "V", "A", "L", "I", "D", "_", "V", "E", "R", "B", ")">>],
      \* "%-k" -> "%!k(INVALID_VERB)"
      [c |-> <<"%", "-", "k">>,
       d |-> <<"%", "!", "k", "(", "I", "N", "V", "A", "L", "I", "D", "_", "V", "E", "R", "B", ")">>],
      \* "%" -> "%!(MISSING_VERB)"
      [c |-> <<"%">>,
       d |-> <<"%", "!", "(", "M", "I", "S", "S", "I", "N", "G", "_", "V", "E", "R", "B", ")">>],
      \* "%[k]" -> "%!(MISSING_VERB)"
      [c |-> <<"%", "[", "k", "]">>,
       d |-> <<"%", "!", "(", "M", "I", "S", "S", "I", "N", "G", "_", "V", "E", "R", "B", ")">>],
      \* "%-1" -> "%!(MISSING_VERB)"
      [c |-> <<"%", "-", "1">>,
       d |-> <<"%", "!", "(", "M", "I", "S", "S", "I", "N", "G", "_", "V", "E", "R", "B", ")">>],
      \* "%(source)" -> "%!(MISSING_VERB)"
      [c |-> <<"%", "(", "s", "o", "u", "r", "c", "e", ")">>,
       d |-> <<"%", "!", "(", "M", "I", "S", "S", "I", "N", "G", "_", "V", "E", "R", "B", ")">>],
      \* "%h" -> "%!h(MISSING_HEADER_NAME)"
      [c |-> <<"%", "h">>,
       d |-> <<"%", "!", "h", "(", "M", "I", "S", "S", "I", "N", "G", "_", "H", "E", "A", "D", "E", "R", "_", "N", "A", "M", "E", ")">>],
      \* "%1h" -> "%!h(MISSING_HEADER_NAME)"
      [c |-> <<"%", "1", "h">>,
       d |-> <<"%", "!", "h", "(", "M", "I", "S", "S", "I", "N", "G", "_", "H", "E", "A", "D", "E", "R", "_", "N", "A", "M", "E", ")">>],
      \* "%[]h" -> "%!h(MISSING_HEADER_NAME)"
      [c |-> <<"%", "[", "]", "h">>,
       d |-> <<"%", "!", "h", "(", "M", "I", "S", "S", "I", "N", "G", "_", "H", "E", "A", "D", "E", "R", "_", "N", "A", "M", "E", ")">>],
      \* "%[k" -> "%![k(MISSING_CLOSING_BRACKET)"
      [c |-> <<"%", "[", "k">>,
       d |-> <<"%", "!", "[", "k", "(", "M", "I", "S", "S", "I", "N", "G", "_", "C", "L", "O", "S", "I", "N", "G", "_", "B", "R", "A", "C", "K", "E", "T", ")">>],
      \* "%[" -> "%![(MISSING_CLOSING_BRACKET)"
      [c |-> <<"%", "[">>,
       d |-> <<"%", "!", "[", "(", "M", "I", "S", "S", "I", "N", "G", "_", "C", "L", "O", "S", "I", "N", "G", "_", "B", "R", "A", "C", "K", "E", "T", ")">>],
      \* "%(k" -> "%!(k(MISSING_CLOSING_PARENTHESIS)"
      [c |-> <<"%", "(", "k">>,
       d |-> <<"%", "!", "(", "k", "(", "M", "I", "S", "S", "I", "N", "G", "_", "C", "L", "O", "S", "I", "N", "G", "_", "P", "A", "R", "E", "N", "T", "H", "E", "S", "I", "S", ")">>],
      \* "%(source{" -> "%!(source{(MISSING_CLOSING_PARENTHESIS)"
      [c |-> <<"%", "(", "s", "o", "u", "r", "c", "e", "{">>,
       d |-> <<"%", "!", "(", "s", "o", "u", "r", "c", "e", "{", "(", "M", "I", "S", "S", "I", "N", "G", "_", "C", "L", "O", "S", "I", "N", "G", "_", "P", "A", "R", "E", "N", "T", "H", "E", "S", "I", "S", ")">>],
      \* "%[k]m" -> "%![(INVALID_MODIFIER)m"
      [c |-> <<"%", "[", "k", "]", "m">>,
       d |-> <<"%", "!", "[", "(", "I", "N", "V", "A", "L", "I", "D", "_", "M", "O", "D", "I", "F", "I", "E", "R", ")", "m">>],
      \* "%12m" -> "%!12(INVALID_MODIFIER)m"
      [c |-> <<"%", "1", "2", "m">>,
       d |-> <<"%", "!", "1", "2", "(", "I", "N", "V", "A", "L", "I", "D", "_", "M", "O", "D", "I", "F", "I", "E", "R", ")", "m">>],
      \* "%-m" -> "%!-(INVALID_MODIFIER)m"
      [c |-> <<"%", "-", "m">>,
       d |-> <<"%", "!", "-", "(", "I", "N", "V", "A", "L", "I", "D", "_", "M", "O", "D", "I", "F", "I", "E", "R", ")", "m">>],
      \* "%(source)m" -> "%!((INVALID_MODIFIER)m"
      [c |-> <<"%", "(", "s", "o", "u", "r", "c", "e", ")", "m">>,
       d |-> <<"%", "!", "(", "(", "I", "N", "V", "A", "L", "I", "D", "_", "M", "O", "D", "I", "F", "I", "E", "R", ")", "m">>],
      \* "%-{" -> "%!-(INVALID_MODIFIER){"
      [c |-> <<"%", "-", "{">>,
       d |-> <<"%", "!", "-", "(", "I", "N", "V", "A", "L", "I", "D", "_", "M", "O", "D", "I", "F", "I", "E", "R", ")", "{">>],
      \* "%(bad){" -> "%!{(bad)(INVALID_STYLE_MODIFIER)"
      [c |-> <<"%", "(", "b", "a", "d", ")", "{">>,
       d |-> <<"%", "!", "{", "(", "b", "a", "d", ")", "(", "I", "N", "V", "A", "L", "I", "D", "_", "S", "T", "Y", "L", "E", "_", "M", "O", "D", "I", "F", "I", "E", "R", ")">>] }

\* what stands before the construct: nothing, or "%[g.f]h "
Before ==
    { [t |-> <<>>, fields |-> <<>>, headers |-> <<>>],
      [t |-> <<"%", "[", "g", ".", "f", "]", "h", " ">>,
       fields |-> <<headerField(<<"g">>, <<"f">>, 0, FALSE), spacer(FALSE)>>,
       headers |-> <<headerField(<<"g">>, <<"f">>, 0, FALSE)>>] }

\* what stands after it: nothing, or " %m"
After ==
    { [t |-> <<>>, fields |-> <<>>],
      [t |-> <<" ", "%", "m">>, fields |-> <<spacer(FALSE), messageField>>] }

DiagFormats == {b.t \o m.c \o a.t : b \in Before, m \in Malformed, a \in After}

InitDiag ==
    /\ tpl \in DiagFormats
    /\ parsed = [status |-> "none"]
    /\ mem = <<>>
    /\ handlers = <<>>
    /\ born = <<>>
    /\ pool = {}
    /\ last = [op |-> "none"]
    /\ encs = <<>>
    /\ idle = {}
    /\ thr = <<>>

NextDiag == Parse
SpecDiag == InitDiag /\ [][NextDiag]_vars

(***************************************************************************)
(* SpecHook: Handle calls with a resolver hook, with and without           *)
(* AddSource, for records with and without a time, a PC and group          *)
(* attributes.                                                             *)
(***************************************************************************)
\* "%t %l %m %a"
TplBuiltins ==
    <<"%", "t", " ", "%", "l", " ", "%", "m", " ", "%", "a">>
\* "%t %s %[y]h %m %m"
TplSourceSlot ==
    <<"%", "t", " ", "%", "s", " ", "%", "[", "y", "]", "h", " ", "%", "m",
      " ", "%", "m">>

HookTemplates == {TplBuiltins, TplSourceSlot}

HookOptions == {[ReplaceAttr |-> "path", AddSource |-> s] : s \in BOOLEAN}

HookRecords ==
    {[Rec(<<"h", "i">>, as) EXCEPT !.time = t, !.pc = p] :
        t \in {0, 1}, p \in {0, 1},
        as \in {<<AttrY>>,
                <<AttrY, Group(<<"g">>, <<Group(<<"k">>, <<AttrF>>)>>)>>}}

InitHook == InitFor(HookTemplates, HookOptions)
NextHook == HandleStep(HookRecords, {"ok"})
SpecHook == InitHook /\ [][NextHook]_vars

(***************************************************************************)
(* SpecPath: WithGroup chains of up to MaxPathHandlers handlers with a     *)
(* resolver hook and AddSource, and Handle calls on any of them, on a      *)
(* template without and one with a call-site slot.  The sink refuses the   *)
(* writes, so that every call renders on a new encoder (Handle keeps the   *)
(* encoder out of the pool when the write fails).                          *)
(***************************************************************************)
MaxPathHandlers == 6

\* "%s %m %a"
TplCallSite ==
    <<"%", "s", " ", "%", "m", " ", "%", "a">>

PathTemplates == {TplBuiltins, TplCallSite}

PathOptions == {[ReplaceAttr |-> "path", AddSource |-> TRUE]}

PathRecords ==
    {[Rec(<<"h", "i">>, <<AttrY, Group(<<"g">>, <<Group(<<"k">>, <<AttrF>>)>>)>>)
         EXCEPT !.time = 1, !.pc = 1]}

InitPath == InitFor(PathTemplates, PathOptions)
NextPath ==
    \/ WithGroupStep(MaxPathHandlers, GroupNames)
    \/ HandleStep(PathRecords, {"err"})
SpecPath == InitPath /\ [][NextPath]_vars

(***************************************************************************)
(* SpecVacuous: Handle calls, without a hook and with the hook that elides *)
(* the key x, for records with group attributes that have no children, or  *)
(* only elided ones, at the top level and inside other groups.             *)
(***************************************************************************)
ElideHook == [ReplaceAttr |-> "elide", AddSource |-> FALSE]

VacuousTemplates == {TplHeader, TplInGroup}

\* group attributes with nothing to show (the one with x, with the hook),
\* and one with a child next to such a group
GroupAttrs ==
    { Group(<<"g">>, <<>>),
      Group(<<>>, <<>>),
      Group(<<"g">>, <<EmptyAttr>>),
      Group(<<"g">>, <<AttrX>>),
      Group(<<"g">>, <<Group(<<"k">>, <<>>)>>),
      Group(<<"g">>, <<Group(<<"k">>, <<AttrX, EmptyAttr>>), Group(<<"k">>, <<>>)>>),
      Group(<<"g">>, <<Group(<<"k">>, <<AttrX>>), AttrF, Group(<<"k">>, <<>>)>>) }

VacuousRecords ==
    {Rec(<<"h", "i">>, as) :
        as \in {<<g>> : g \in GroupAttrs}
               \cup {<<AttrY, g, AttrF>> : g \in GroupAttrs}}

InitVacuous == InitFor(VacuousTemplates, {NoHook, ElideHook})
NextVacuous == HandleStep(VacuousRecords, {"ok"})
SpecVacuous == InitVacuous /\ [][NextVacuous]_vars

(***************************************************************************)
(* SpecInline: WithGroup and Handle calls, without and with a hook, for    *)
(* records with group attributes whose key is empty, at the top level and  *)
(* inside a named group.                                                   *)
(***************************************************************************)
MaxInlineHandlers == 2

InlineTemplates == {TplKey, TplInGroup}

InlineRecords ==
    {Rec(<<"h", "i">>, as) :
        as \in { <<Group(<<>>, <<AttrF, AttrY>>)>>,
                 <<Group(<<"g">>, <<Group(<<>>, <<AttrF>>), AttrY>>)>>,
                 <<Group(<<>>, <<Group(<<"g">>, <<AttrF>>)>>)>> }}

InitInline == InitFor(InlineTemplates, Options)
NextInline ==
    \/ WithGroupStep(MaxInlineHandlers, {<<"g">>})
    \/ HandleStep(InlineRecords, {"ok"})
SpecInline == InitInline /\ [][NextInline]_vars

(***************************************************************************)
(* SpecMultiline: WithAttrs, WithGroup and Handle calls with attributes    *)
(* whose value holds a line break, between and after single-line ones.     *)
(***************************************************************************)
\* "%m %a"
TplMsgAttrs ==
    <<"%", "m", " ", "%", "a">>

MultilineTemplates == {TplMsgAttrs}

AttrN == String(<<"n">>, <<"\n", "c", "\n">>)

MultilineRecords ==
    {Rec(<<"h", "i">>, as) :
        as \in {<<AttrY, AttrN, AttrA>>, <<AttrZ, AttrY>>}}

InitMultiline == InitFor(MultilineTemplates, {NoHook})
NextMultiline ==
    \/ HandleStep(MultilineRecords, {"ok"})
    \/ WithAttrsStep(MaxHandlers)
    \/ WithGroupStep(MaxHandlers, {<<"g">>})
SpecMultiline == InitMultiline /\ [][NextMultiline]_vars

(***************************************************************************)
(* SpecBreaks: Handle calls for messages and attribute values that start   *)
(* and end with a line break.                                              *)
(***************************************************************************)
BreakTemplates == {TplMsgAttrs, TplHeader}

BreakRecords ==
    {Rec(m, as) :
        m \in {<<"h", "i">>, <<"\n", "m", "\n">>},
        as \in {<<>>, <<AttrY>>, <<AttrN>>, <<AttrY, AttrN>>}}

InitBreaks == InitFor(BreakTemplates, {NoHook})
NextBreaks == HandleStep(BreakRecords, {"ok"})
SpecBreaks == InitBreaks /\ [][NextBreaks]_vars

(***************************************************************************)
(* SpecAttach: chains of WithGroup and WithAttrs calls of up to            *)
(* MaxAttachHandlers handlers, and Handle calls on any of them.            *)
(***************************************************************************)
MaxAttachHandlers == 4

AttachTemplates == {TplMsgAttrs}

AttachRecords == {Rec(<<"h", "i">>, <<AttrY>>)}

\* WithAttrs with one of these attribute lists
AttachStep(n, lists) ==
    /\ Len(handlers) < n
    /\ \E hid \in 1..Len(handlers), attrs \in lists, pe \in Borrowable :
        DoWithAttrs(hid, attrs, pe)

InitAttach == InitFor(AttachTemplates, {NoHook})
NextAttach ==
    \/ HandleStep(AttachRecords, {"ok"})
    \/ AttachStep(MaxAttachHandlers, {<<AttrF>>})
    \/ WithGroupStep(MaxAttachHandlers, GroupNames)
SpecAttach == InitAttach /\ [][NextAttach]_vars

(***************************************************************************)
(* SpecSource: WithGroup and Handle calls with AddSource on and off, for   *)
(* records with and without a PC, on templates without a call-site slot,   *)
(* with a header slot for the key source, with a call-site slot, and with  *)
(* a call-site slot in a group.                                            *)
(***************************************************************************)
\* "%l %m %a"
TplNoSlot ==
    <<"%", "l", " ", "%", "m", " ", "%", "a">>
\* "%[source]h > %m %a"
TplSourceHeader ==
    <<"%", "[", "s", "o", "u", "r", "c", "e", "]", "h", " ", ">", " ", "%",
      "m", " ", "%", "a">>
\* "%l %s %m %a"
TplSlot ==
    <<"%", "l", " ", "%", "s", " ", "%", "m", " ", "%", "a">>
\* "%l %{[%s]%} %m %a"
TplSlotInGroup ==
    <<"%", "l", " ", "%", "{", "[", "%", "s", "]", "%", "}", " ", "%", "m",
      " ", "%", "a">>

SourceTemplates == {TplNoSlot, TplSourceHeader, TplSlot, TplSlotInGroup}

SourceOptions == {[ReplaceAttr |-> "nil", AddSource |-> s] : s \in BOOLEAN}

SourceRecords ==
    {[Rec(<<"h", "i">>, <<AttrY>>) EXCEPT !.pc = p] : p \in {0, 1}}

InitSource == InitFor(SourceTemplates, SourceOptions)
NextSource ==
    \/ WithGroupStep(MaxHandlers, {<<"g">>})
    \/ HandleStep(SourceRecords, {"ok"})
SpecSource == InitSource /\ [][NextSource]_vars

(***************************************************************************)
(* SpecLevels: Handle calls for every level from MaxOffset below Debug to  *)
(* MaxOffset above Error, on "%l %m" and "%L %m", without a hook.          *)
(***************************************************************************)
MaxOffset == 3

\* "%l %m"
TplAbbreviated ==
    <<"%", "l", " ", "%", "m">>
\* "%L %m"
TplFullLevel ==
    <<"%", "L", " ", "%", "m">>

LevelTemplates == {TplAbbreviated, TplFullLevel}

Levels == (LevelDebug - MaxOffset)..(LevelError + MaxOffset)

LevelRecords == {[Rec(<<"h", "i">>, <<>>) EXCEPT !.level = l] : l \in Levels}

InitLevels == InitFor(LevelTemplates, {NoHook})
NextLevels == HandleStep(LevelRecords, {"ok"})
SpecLevels == InitLevels /\ [][NextLevels]_vars

(***************************************************************************)
(* SpecSink: the callers of SpecConc on a handler of TplHeader or TplPad,  *)
(* to follow what each call has handed to the sink from step to step.      *)
(***************************************************************************)
SinkTemplates == {TplHeader, TplPad}

InitSink ==
    /\ tpl \in SinkTemplates
    /\ parsed = parseFormat(tpl)
    /\ mem = <<parsed.headerFields>>
    /\ handlers = <<NewHandler(parsed, NoHook, 1)>>
    /\ born = <<Birth(0, "NewHandler", <<>>, mem, handlers[1])>>
    /\ pool = {}
    /\ last = [op |-> "NewHandler"]
    /\ encs = <<>>
    /\ idle = {}
    /\ thr = [t \in 1..MaxThreads |-> Caller]
SpecSink == InitSink /\ [][NextConc]_vars

(***************************************************************************)
(* SpecAdjacent: handlers of templates whose spaces stand next to literal  *)
(* text, to slots and to group markers, and Handle calls on them.          *)
(***************************************************************************)
\* "x%a %l"
TplTextAttrs ==
    <<"x", "%", "a", " ", "%", "l">>
\* "%l %s>"
TplSourceText ==
    <<"%", "l", " ", "%", "s", ">">>
\* "%l %{> %m%}"
TplSpaceGroup ==
    <<"%", "l", " ", "%", "{", ">", " ", "%", "m", "%", "}">>
\* "%l %m > %a"
TplTextBetween ==
    <<"%", "l", " ", "%", "m", " ", ">", " ", "%", "a">>
\* "%l %a %s %m"
TplSlotsOnly ==
    <<"%", "l", " ", "%", "a", " ", "%", "s", " ", "%", "m">>

AdjacentTemplates ==
    {TplTextAttrs, TplSourceText, TplSpaceGroup, TplTextBetween, TplSlotsOnly}

AdjacentRecords ==
    {[Rec(<<"h", "i">>, as) EXCEPT !.pc = p] : as \in {<<>>, <<AttrY>>},
                                               p \in {0, 1}}

InitAdjacent == InitFor(AdjacentTemplates, SourceOptions)
NextAdjacent == HandleStep(AdjacentRecords, {"ok"})
SpecAdjacent == InitAdjacent /\ [][NextAdjacent]_vars

(***************************************************************************)
(* SpecSpaces: parseFormat on every template of up to MaxSpaceLen bytes    *)
(* among the space, the tab, '%', a verb and a letter.                     *)
(***************************************************************************)
MaxSpaceLen == 6

SpaceAlphabet == {" ", "\t", "%", "l", "x"}

InitSpaces ==
    /\ tpl \in SeqsUpTo(SpaceAlphabet, MaxSpaceLen)
    /\ parsed = [status |-> "none"]
    /\ mem = <<>>
    /\ handlers = <<>>
    /\ born = <<>>
    /\ pool = {}
    /\ last = [op |-> "none"]
    /\ encs = <<>>
    /\ idle = {}
    /\ thr = <<>>
SpecSpaces == InitSpaces /\ [][NextParse]_vars

(***************************************************************************)
(* SpecStray: Handle calls on templates with a '%}' that closes no group.  *)
(***************************************************************************)
\* "%l %} > %m"
TplStrayClose ==
    <<"%", "l", " ", "%", "}", " ", ">", " ", "%", "m">>
\* "%l %(bad){ %[f]h %} > %m"
TplBadStyle ==
    <<"%", "l", " ", "%", "(", "b", "a", "d", ")", "{", " ", "%", "[", "f",
      "]", "h", " ", "%", "}", " ", ">", " ", "%", "m">>
\* "%[f]h >%} %m"
TplCloseAfterText ==
    <<"%", "[", "f", "]", "h", " ", ">", "%", "}", " ", "%", "m">>
\* "%l %{%[f]h%} %} %m"
TplCloseTwice ==
    <<"%", "l", " ", "%", "{", "%", "[", "f", "]", "h", "%", "}", " ", "%",
      "}", " ", "%", "m">>

StrayTemplates == {TplStrayClose, TplBadStyle, TplCloseAfterText, TplCloseTwice}

StrayRecords ==
    {Rec(m, as) : m \in {<<"h", "i">>, <<>>}, as \in {<<>>, <<AttrF>>, <<AttrY>>}}

InitStray == InitFor(StrayTemplates, {NoHook})
NextStray == HandleStep(StrayRecords, {"ok"})
SpecStray == InitStray /\ [][NextStray]_vars

(***************************************************************************)
(* SpecEquiv: handlers derived by WithAttrs, with empty and elided lists   *)
(* too, and by WithGroup, and Handle calls on any of them.  The sink       *)
(* refuses the writes, so the encoders of the pool are those WithAttrs     *)
(* has returned.                                                           *)
(***************************************************************************)
MaxEquivHandlers == 3

EquivLists == {<<>>, <<AttrX>>, <<AttrF>>, <<AttrF, AttrX, AttrZ>>}

EquivRecords == {Rec(<<"h", "i">>, as) : as \in {<<AttrY>>, <<AttrF, AttrZ>>}}

InitEquiv == InitFor({TplHeader}, {NoHook, ElideHook})
NextEquiv ==
    \/ HandleStep(EquivRecords, {"err"})
    \/ AttachStep(MaxEquivHandlers, EquivLists)
    \/ WithGroupStep(MaxEquivHandlers, {<<"g">>})
SpecEquiv == InitEquiv /\ [][NextEquiv]_vars

(***************************************************************************)
(* SpecCatalog: handlers derived by WithAttrs and WithGroup from templates *)
(* with no, two and three header slots, and Handle calls on them.  The     *)
(* sink refuses the writes, so the encoders of the pool are those          *)
(* WithAttrs has returned.                                                 *)
(***************************************************************************)
MaxCatalogHandlers == 3

\* "%[a]h %{%[g.f]h%} %[f]-3h %m"
TplThreeSlots ==
    <<"%", "[", "a", "]", "h", " ", "%", "{", "%", "[", "g", ".", "f", "]",
      "h", "%", "}", " ", "%", "[", "f", "]", "-", "3", "h", " ", "%", "m">>
\* "%l %m %a"
TplNoHeader ==
    <<"%", "l", " ", "%", "m", " ", "%", "a">>

CatalogTemplates == {TplThreeSlots, TplSlots, TplNoHeader}

CatalogRecords ==
    {Rec(<<"h", "i">>, as) :
        as \in {<<>>, <<AttrA, AttrF>>, <<Group(<<"g">>, <<AttrF>>)>>}}

InitCatalog == InitFor(CatalogTemplates, {NoHook})
NextCatalog ==
    \/ HandleStep(CatalogRecords, {"err"})
    \/ AttachStep(MaxCatalogHandlers, {<<AttrA>>, <<AttrF>>})
    \/ WithGroupStep(MaxCatalogHandlers, {<<"g">>})
SpecCatalog == InitCatalog /\ [][NextCatalog]_vars

(***************************************************************************)
(* SpecBalance: trees of handlers made by WithGroup, with AddSource on a   *)
(* template without a call-site slot, with each hook and without one, and  *)
(* Handle calls for records with nested group attributes.                  *)
(***************************************************************************)
MaxBalanceHandlers == 4

BalanceOptions ==
    {[ReplaceAttr |-> r, AddSource |-> TRUE] : r \in {"nil", "path", "elide"}}

BalanceRecords ==
    {[Rec(<<"h", "i">>, as) EXCEPT !.pc = pc] :
        as \in {<<AttrY>>,
                <<Group(<<"g">>, <<Group(<<"k">>, <<AttrX>>), AttrF,
                                   Group(<<"k">>, <<>>)>>), AttrY>>,
                <<Group(<<>>, <<AttrX, Group(<<"k">>, <<AttrF>>)>>)>>},
        pc \in {0, 1}}

InitBalance == InitFor({TplBuiltins}, BalanceOptions)
NextBalance ==
    \/ WithGroupStep(MaxBalanceHandlers, GroupNames)
    \/ HandleStep(BalanceRecords, {"err"})
SpecBalance == InitBalance /\ [][NextBalance]_vars

(***************************************************************************)
(* SpecNames: trees of handlers made by WithGroup with names that are      *)
(* empty, only white space, or padded with white space, and Handle calls.  *)
(***************************************************************************)
MaxNameHandlers == 4

PaddedNames == {<<"g">>, <<>>, <<" ">>, <<" ", "k">>}

NameRecords ==
    {Rec(<<"h", "i">>, as) :
        as \in {<<AttrY>>, <<Group(<<"k">>, <<AttrF>>), AttrY>>}}

InitNames == InitFor({TplNoHeader}, {NoHook})
NextNames ==
    \/ WithGroupStep(MaxNameHandlers, PaddedNames)
    \/ HandleStep(NameRecords, {"err"})
SpecNames == InitNames /\ [][NextNames]_vars

(***************************************************************************)
(* The properties.                                                         *)
(***************************************************************************)
\* the line Handle renders for rec on handler hid with a new encoder
LineOf(m, hs, hid, rec) == Bytes(renderLine(m, hs, hid, NewEncoder, rec).e.buf)

\* encoder.free's resets, src/encoding.go:45-49
Cleared(e) ==
    /\ e.h = 0
    /\ e.buf.len = 0
    /\ e.attrBuf.len = 0
    /\ e.multilineAttrBuf.len = 0
    /\ e.groups.len = 0

\* C1: in every Handle call, each group that is rolled back (it has slots
\* and none of them rendered a byte) leaves the line exactly as it was when
\* the group was opened, and the roll back does not make Handle fail.
C1_ElidedGroupVanishes ==
    last.op = "Handle" =>
        /\ last.ret # "panic"
        /\ \A k \in 1..Len(last.elided) :
               last.elided[k].atClose = last.elided[k].atOpen

\* a Handle call has rolled a group back and written its line
C1_GroupElided ==
    /\ last.op = "Handle"
    /\ last.ret = "nil"
    /\ Len(last.elided) > 0

\* C2: a WithAttrs call changes no handler that exists already: what each
\* holds (buffers, memos, prefix, group names) and the line each renders
\* for a record are the same after the call as before it.
C2_AttachKeepsEarlier ==
    [][(/\ Len(handlers') > Len(handlers)
        /\ born'[Len(handlers')].op = "WithAttrs")
       => \A i \in 1..Len(handlers) :
              /\ Snapshot(mem', handlers'[i]) = Snapshot(mem, handlers[i])
              /\ \A rec \in ChainRecords :
                     LineOf(mem', handlers', i, rec)
                         = LineOf(mem, handlers, i, rec)]_vars

\* d, d.WithAttrs(A) and d.WithAttrs(A).WithAttrs(B) exist, A and B give the
\* header key different values, and a record has been rendered on
\* d.WithAttrs(A) after the second attach
C2_AttachedTwice ==
    /\ Len(handlers) = 3
    /\ born[2].op = "WithAttrs" /\ born[2].parent = 1
    /\ born[3].op = "WithAttrs" /\ born[3].parent = 2
    /\ mem[handlers[2].headerFields][1].memo # <<>>
    /\ mem[handlers[3].headerFields][1].memo
           # mem[handlers[2].headerFields][1].memo
    /\ last.op = "Handle" /\ last.h = 2 /\ last.ret = "nil"

\* C3: every handler holds what it held when it was made (accumulated
\* attributes, header memos, group prefix, group names), whatever was
\* derived from its parent or from itself since.
C3_SiblingsKeepState ==
    \A i \in 1..Len(handlers) : Snapshot(mem, handlers[i]) = born[i].snap

\* two handlers have been derived from the same parent, the second after
\* the first
C3_TwoChildren ==
    \E i, j \in 1..Len(handlers) :
        /\ i < j
        /\ born[i].parent = born[j].parent
        /\ born[i].parent # 0
        /\ born[j].op = "WithGroup"

\* C4: a handler made by WithGroup has the flat buffer, the multi-line
\* buffer and the header memos of the handler it was made from.
C4_GroupKeepsBuffers ==
    \A i \in 1..Len(handlers) :
        born[i].op = "WithGroup" =>
            /\ handlers[i].context = handlers[born[i].parent].context
            /\ handlers[i].multilineContext
                   = handlers[born[i].parent].multilineContext
            /\ mem[handlers[i].headerFields]
                   = mem[handlers[born[i].parent].headerFields]

\* WithGroup has been called on a handler that holds flat attributes and
\* a header memo
C4_GroupAfterAttrs ==
    \E i \in 1..Len(handlers) :
        /\ born[i].op = "WithGroup"
        /\ handlers[born[i].parent].context # <<>>
        /\ mem[handlers[born[i].parent].headerFields][1].memo # <<>>

\* C5: when Handle or WithAttrs returns, the encoder it borrowed is back in
\* the pool, and every encoder in the pool is cleared.
C5_EncoderReturned ==
    /\ last.op \in {"Handle", "WithAttrs"} => last.put
    /\ \A e \in pool : Cleared(e)

\* a Handle call has returned normally and put its encoder back
C5_ReturnedAfterWrite ==
    /\ last.op = "Handle"
    /\ last.res = "ok"
    /\ last.put
    /\ pool # {}

\* C6: parseFormat returns for every template: it does not panic and does
\* not loop.
C6_ParseReturns == parsed.status \in {"none", "done"}

\* parseFormat has returned for a template that ends right after a [key]
\* modifier
C6_EndsAfterModifier ==
    /\ tpl = <<"%", "[", "k", "]">>
    /\ parsed.status = "done"

\* C7: a Handle call, whether its write fails or not, changes no handler:
\* the handlers and what each holds through its slices are the same after
\* the call as before it.
C7_HandleKeepsHandler ==
    [][last'.op = "Handle"
       => /\ handlers' = handlers
          /\ \A i \in 1..Len(handlers) :
                 Snapshot(mem', handlers'[i]) = Snapshot(mem, handlers[i])]_vars

\* a Handle call whose write failed, for a record with the header key, on
\* a handler that holds attributes and a header memo
C7_HandledOnDerived ==
    /\ last.op = "Handle"
    /\ last.ret = "err"
    /\ Len(last.rec.attrs) = 2
    /\ handlers[last.h].context # <<>>
    /\ mem[handlers[last.h].headerFields][1].memo # <<>>

C9_LineIndependentOfHistory ==
    (last.op = "Handle" /\ last.ret # "panic") =>
        last.writes[1].data = LineOf(mem, handlers, last.h, last.rec)

\* a Handle call has rendered a record on an encoder that was in the pool
C9_RenderedOnPooled ==
    /\ last.op = "Handle"
    /\ last.reused
    /\ last.ret = "nil"

\* C10: Handle writes once; it returns the error when the write failed and
\* nil when it succeeded.
C10_WriteErrorReturned ==
    (last.op = "Handle" /\ last.ret # "panic") =>
        /\ Len(last.writes) = 1
        /\ last.ret = (IF last.writes[1].res = "ok" THEN "nil" ELSE "err")

\* a Handle call whose write failed has returned the error
C10_WriteFailed ==
    /\ last.op = "Handle"
    /\ last.ret = "err"
    /\ Len(last.writes) = 1
    /\ last.writes[1].res = "err"

\* s occurs in line as a run of consecutive bytes
HasText(line, s) ==
    \E i \in 1..(Len(line) - Len(s) + 1) : SubSeq(line, i, i + Len(s) - 1) = s

\* the number of groups open before instruction k
RECURSIVE Depth(_, _)
Depth(fields, k) ==
    IF k <= 1 THEN 0
    ELSE Depth(fields, k - 1)
         + (IF fields[k - 1].t = "groupOpen" THEN 1
            ELSE IF fields[k - 1].t = "groupClose" THEN -1 ELSE 0)

\* the group opened at k and closed at j holds literal text and spaces only
LiteralOnly(fields, k, j) ==
    /\ fields[k].t = "groupOpen"
    /\ fields[j].t = "groupClose"
    /\ \A i \in (k + 1)..(j - 1) : fields[i].t \in {"string", "spacer"}
    /\ \E i \in (k + 1)..(j - 1) : fields[i].t = "string"

\* every literal of every literal-only group of fields, among those at a
\* nesting depth in depths, is in line
LiteralsKept(fields, depths, line) ==
    \A k, j \in 1..Len(fields) :
        (k < j /\ LiteralOnly(fields, k, j) /\ Depth(fields, k) \in depths) =>
            \A i \in (k + 1)..(j - 1) :
                fields[i].t = "string" => HasText(line, fields[i].s)

Closes(fields, k, j) ==
    /\ k < j
    /\ fields[k].t = "groupOpen"
    /\ fields[j].t = "groupClose"
    /\ Depth(fields, j + 1) = Depth(fields, k)
    /\ \A i \in (k + 1)..(j - 1) :
           fields[i].t = "groupClose" => Depth(fields, i + 1) # Depth(fields, k)

\* the positions of the slots between k and j
SlotsIn(fields, k, j) ==
    {i \in (k + 1)..(j - 1) :
        fields[i].t \notin {"string", "spacer", "groupOpen", "groupClose"}}

\* the group of fields from k to j is in line with all its literal text when
\* one of its slots is in printed, and none of its literal text is in line
\* when none of its slots is
GroupFollowsSlots(fields, k, j, printed, line) ==
    \A i \in (k + 1)..(j - 1) :
        fields[i].t = "string" =>
            (HasText(line, fields[i].s) <=>
                 SlotsIn(fields, k, j) \cap printed # {})

\* C12: every group that holds a slot, directly or in a nested group, is
\* left out with all its literal text when none of these slots wrote
\* anything, and is kept with its literal text when one of them did.
C12_GroupsNest ==
    (last.op = "Handle" /\ last.ret = "nil") =>
        \A k, j \in 1..Len(handlers[last.h].fields) :
            (/\ Closes(handlers[last.h].fields, k, j)
             /\ SlotsIn(handlers[last.h].fields, k, j) # {}) =>
                GroupFollowsSlots(handlers[last.h].fields, k, j, last.printed,
                                  last.writes[1].data)

\* the brackets around an omitted header are in the line
C12_BracketsLeft ==
    /\ last.op = "Handle"
    /\ tpl = TplBrackets
    /\ last.rec.attrs = <<>>
    /\ last.printed = {Len(handlers[last.h].fields)}
    /\ last.writes[1].data = <<"[", " ", "]", " ", "h", "i", "\n">>

\* line has no space at its start, none before its final newline and no two
\* spaces in a row
NoStraySpace(line) ==
    /\ line # <<>>
    /\ line[1] # " "
    /\ Len(line) > 1 => line[Len(line) - 1] # " "
    /\ \A i \in 1..(Len(line) - 1) : ~(line[i] = " " /\ line[i + 1] = " ")

\* no header slot of fields has a fixed width
NoFixedWidth(fields) ==
    \A i \in 1..Len(fields) : fields[i].t = "header" => fields[i].width = 0

FirstWith(as, key) ==
    IF \E i \in 1..Len(as) : as[i].key = key
    THEN CHOOSE i \in 1..Len(as) :
             as[i].key = key /\ \A j \in 1..(i - 1) : as[j].key # key
    ELSE 0

\* the text a slot for key shows: the value of the first attribute with it
SlotText(as, key) ==
    IF FirstWith(as, key) = 0 THEN <<>> ELSE as[FirstWith(as, key)].val.s

\* " k=v" for each attribute of as from i on that is not the first one with
\* a key of keys
RECURSIVE RestText(_, _, _)
RestText(as, keys, i) ==
    IF i > Len(as) THEN <<>>
    ELSE (IF as[i].key \in keys /\ FirstWith(as, as[i].key) = i THEN <<>>
          ELSE <<" ">> \o as[i].key \o <<"=">> \o as[i].val.s)
         \o RestText(as, keys, i + 1)

HeaderKeys(fields) ==
    {fields[i].key : i \in {j \in 1..Len(fields) : fields[j].t = "header"}}

\* text in w bytes: cut after w bytes, or filled with spaces on the right,
\* or on the left when right is set
Fitted(text, w, right) ==
    IF Len(text) >= w THEN SubSeq(text, 1, w)
    ELSE IF right THEN [i \in 1..(w - Len(text)) |-> " "] \o text
    ELSE text \o [i \in 1..(w - Len(text)) |-> " "]

\* the words of the line, one per instruction (empty for an empty slot)
WordOf(f, rec, keys) ==
    CASE f.t = "header" ->
            IF f.width > 0 /\ FirstWith(rec.attrs, f.key) # 0
            THEN Fitted(SlotText(rec.attrs, f.key), f.width, f.rightAlign)
            ELSE SlotText(rec.attrs, f.key)
      [] f.t = "level" -> <<"I", "N", "F">>
      [] f.t = "string" -> f.s
      [] f.t = "message" -> rec.msg
      [] f.t = "attrs" -> IF RestText(rec.attrs, keys, 1) = <<>> THEN <<>>
                          ELSE Tail(RestText(rec.attrs, keys, 1))
      [] OTHER -> <<>>

\* the words from instruction i on, each non-empty one after a space
RECURSIVE WordsFrom(_, _, _, _)
WordsFrom(fields, rec, keys, i) ==
    IF i > Len(fields) THEN <<>>
    ELSE (IF WordOf(fields[i], rec, keys) = <<>> THEN <<>>
          ELSE <<" ">> \o WordOf(fields[i], rec, keys))
         \o WordsFrom(fields, rec, keys, i + 1)

\* C14: each header slot shows, at its place in the template, the value of
\* the first attribute of the record with its key, whatever the order of
\* the attributes; that attribute is not in the attribute output, and all
\* the other attributes are, in the order of the record.
C14_SlotShowsFirstMatch ==
    (last.op = "Handle" /\ tpl \in {TplSlots, TplSlotsLast}) =>
        /\ last.ret = "nil"
        /\ <<" ">> \o last.writes[1].data =
               WordsFrom(handlers[last.h].fields, last.rec,
                         HeaderKeys(handlers[last.h].fields), 1) \o <<"\n">>

\* the record carries f before a, the template the slot for a before the
\* slot for f
C14_CapturedOutOfOrder ==
    /\ last.op = "Handle"
    /\ tpl = TplSlots
    /\ last.rec.attrs = <<AttrF, AttrA>>
    /\ last.writes[1].data = <<"1", " ", "v", " ", ">", " ", "h", "i", "\n">>


\* C16: with "%[f]h %[f]h" and a record with one attribute f, the first
\* slot shows its value, the second slot is empty and f is not in the
\* attribute output.
C16_SecondSlotEmpty ==
    (/\ last.op = "Handle"
     /\ tpl = TplSameKey
     /\ Cardinality({i \in 1..Len(last.rec.attrs) :
                        last.rec.attrs[i].key = <<"f">>}) = 1) =>
        /\ last.ret = "nil"
        /\ last.writes[1].data =
               SlotText(last.rec.attrs, <<"f">>) \o <<" ", ">", " ">>
               \o last.rec.msg \o RestText(last.rec.attrs, {<<"f">>}, 1)
               \o <<"\n">>

\* the record carries y and one f
C16_OneValueTwoSlots ==
    /\ last.op = "Handle"
    /\ tpl = TplSameKey
    /\ last.rec.attrs = <<AttrY, AttrF>>
    /\ last.writes[1].data =
           <<"v", " ", ">", " ", "h", "i", " ", "y", "=", "1", "\n">>

\* the names given to WithGroup on the way from the first handler to h
RECURSIVE GroupsOf(_)
GroupsOf(h) ==
    IF born[h].parent = 0 THEN <<>>
    ELSE GroupsOf(born[h].parent)
         \o (IF born[h].op = "WithGroup" THEN <<born[h].arg>> ELSE <<>>)

\* the keys of the group attributes around the leaf of a
RECURSIVE KeysAround(_)
KeysAround(a) ==
    IF a.val.kind = "group" THEN <<a.key>> \o KeysAround(a.val.attrs[1])
    ELSE <<>>

\* the name between the brackets of a template that starts with a header slot
SlotName(t) ==
    SubSeq(t, 3, (CHOOSE i \in 1..Len(t) :
                      t[i] = "]" /\ \A j \in 1..(i - 1) : t[j] # "]") - 1)

\* the place of the last '.' of name, 0 when it has none
LastDot(name) ==
    IF \E i \in 1..Len(name) : name[i] = "."
    THEN CHOOSE i \in 1..Len(name) :
             name[i] = "." /\ \A j \in (i + 1)..Len(name) : name[j] # "."
    ELSE 0

\* the line for a record whose one leaf f=v has the group prefix full, on a
\* template "%[name]h > %m %a"
PrefixLine(name, full, msg) ==
    IF /\ SubSeq(name, LastDot(name) + 1, Len(name)) = <<"f">>
       /\ SubSeq(name, 1, LastDot(name) - 1) = full
    THEN <<"v", " ", ">", " ">> \o msg \o <<"\n">>
    ELSE <<">", " ">> \o msg \o <<" ">> \o full
         \o (IF full = <<>> THEN <<>> ELSE <<".">>) \o <<"f", "=", "v", "\n">>

\* C15: the slot captures the attribute when the part of its name after the
\* last '.' is the attribute's key and the part before it is the whole
\* group prefix of the attribute (the WithGroup names, then the keys of the
\* group attributes around it), and only then.
C15_PrefixMatchesExactly ==
    last.op = "Handle" =>
        /\ last.ret = "nil"
        /\ last.writes[1].data =
               PrefixLine(SlotName(tpl),
                          JoinWith(GroupsOf(last.h)
                                   \o KeysAround(last.rec.attrs[1]), <<".">>),
                          last.rec.msg)

\* "%[g.k.f]h" has captured f from a group attribute k on a handler made by
\* WithGroup("g")
C15_CapturedUnderBoth ==
    /\ last.op = "Handle"
    /\ tpl = TplInGroups
    /\ GroupsOf(last.h) = <<<<"g">>>>
    /\ KeysAround(last.rec.attrs[1]) = <<<<"k">>>>
    /\ last.writes[1].data = <<"v", " ", ">", " ", "h", "i", "\n">>

\* the value WithAttrs calls on the way to h left for the header key: the
\* one of the latest call that carried the key at the top level
RECURSIVE MemoOf(_)
MemoOf(h) ==
    IF born[h].parent = 0 THEN <<>>
    ELSE IF /\ born[h].op = "WithAttrs"
            /\ GroupsOf(born[h].parent) = <<>>
            /\ FirstWith(born[h].arg, <<"f">>) # 0
    THEN SlotText(born[h].arg, <<"f">>)
    ELSE MemoOf(born[h].parent)

\* what the slot for f shows for rec on h: the record's own value when it
\* carries f at the top level, else the value memoized for h
ShownFor(h, rec) ==
    IF GroupsOf(h) = <<>> /\ FirstWith(rec.attrs, <<"f">>) # 0
    THEN SlotText(rec.attrs, <<"f">>)
    ELSE MemoOf(h)

\* line starts with "INF", text in the header slot, then " > " and msg
StartsWithSlot(line, text, msg) ==
    SubSeq(line, 1, 6 + Len(text) + (IF text = <<>> THEN 0 ELSE 1) + Len(msg))
        = <<"I", "N", "F">> \o (IF text = <<>> THEN <<>> ELSE <<" ">> \o text)
          \o <<" ", ">", " ">> \o msg

\* C17: at every Handle call, whatever calls came before, the header slot
\* shows the record's own value when the record carries the key, and
\* otherwise the value given by the latest WithAttrs call on the way to the
\* handler that is called, whatever was attached to other handlers.
C17_MemoShownUnlessOverridden ==
    last.op = "Handle" =>
        /\ last.writes # <<>>
        /\ StartsWithSlot(last.writes[1].data, ShownFor(last.h, last.rec),
                          last.rec.msg)

\* d.WithAttrs(f=v) and d.WithAttrs(f=v).WithAttrs(f=w, ...) exist, and a
\* record without f has been rendered on the first of them: it shows v
C17_EarlierMemoShown ==
    /\ Len(handlers) = 3
    /\ born[2].op = "WithAttrs" /\ born[2].parent = 1
    /\ born[3].op = "WithAttrs" /\ born[3].parent = 2
    /\ MemoOf(2) = <<"v">> /\ MemoOf(3) = <<"w">>
    /\ last.op = "Handle" /\ last.h = 2
    /\ last.rec.attrs = <<AttrY>>
    /\ StartsWithSlot(last.writes[1].data, <<"v">>, last.rec.msg)

\* C18: when a record carries the attribute of a header slot of width w,
\* the line holds, at the place of the slot, the first w bytes of the value
\* when it is longer, else the value with spaces after it up to w bytes, or
\* before it when the slot is right-aligned.
C18_HeaderFitsWidth ==
    (last.op = "Handle" /\ FirstWith(last.rec.attrs, <<"f">>) # 0) =>
        /\ last.ret = "nil"
        /\ <<" ">> \o last.writes[1].data =
               WordsFrom(handlers[last.h].fields, last.rec,
                         HeaderKeys(handlers[last.h].fields), 1) \o <<"\n">>

\* a value of one byte has been rendered in a right-aligned slot of width 3
\* that is followed by an empty slot, and the line holds the value alone
C18_PaddingChopped ==
    /\ last.op = "Handle"
    /\ tpl = TplRightFirst
    /\ last.rec.attrs = <<AttrF>>
    /\ last.writes[1].data = <<"v", "\n">>

\* C19: parseFormat compiles a malformed construct to the literal listed
\* for it and to nothing else, and what stands before and after it as it
\* compiles them without the construct.
C19_DiagnosticsExact ==
    parsed.status # "none" =>
        \A b \in Before, m \in Malformed, a \in After :
            tpl = b.t \o m.c \o a.t =>
                /\ parsed.status = "done"
                /\ parsed.fields = b.fields \o <<stringField(m.d)>> \o a.fields
                /\ parsed.headerFields = b.headers

\* "%[g.f]h %[k %m" has been compiled: a header slot, the literal for the
\* unclosed bracket, the message slot
C19_UnclosedBracketCompiled ==
    /\ tpl = <<"%", "[", "g", ".", "f", "]", "h", " ", "%", "[", "k", " ",
               "%", "m">>
    /\ parsed.status = "done"
    /\ Len(parsed.fields) = 5
    /\ parsed.fields[3].t = "string"
    /\ Len(parsed.headerFields) = 1

\* one call of the hook
Call(groups, key) == [groups |-> groups, key |-> key]

\* a call for each attribute of as that is not a group, in the order of the
\* walk, with the keys of the groups around it
RECURSIVE LeafCalls(_, _)
LeafCalls(as, path) ==
    IF as = <<>> THEN <<>>
    ELSE (IF Head(as).val.kind = "group"
          THEN LeafCalls(Head(as).val.attrs, path \o <<Head(as).key>>)
          ELSE <<Call(path, Head(as).key)>>)
         \o LeafCalls(Tail(as), path)

\* a call for each builtin field the instructions from i on render: none
\* for a zero time, none for the call-site without a source
RECURSIVE BuiltinCalls(_, _, _, _)
BuiltinCalls(fields, rec, hasSrc, i) ==
    IF i > Len(fields) THEN <<>>
    ELSE (CASE fields[i].t = "timestamp" /\ rec.time # 0 ->
                    <<Call(<<>>, <<"t", "i", "m", "e">>)>>
            [] fields[i].t = "level" -> <<Call(<<>>, <<"l", "e", "v", "e", "l">>)>>
            [] fields[i].t = "message" -> <<Call(<<>>, <<"m", "s", "g">>)>>
            [] fields[i].t = "source" /\ hasSrc ->
                    <<Call(<<>>, <<"s", "o", "u", "r", "c", "e">>)>>
            [] OTHER -> <<>>)
         \o BuiltinCalls(fields, rec, hasSrc, i + 1)

\* the calls of a Handle call: the call-site as an attribute when the
\* template has no slot for it, the attributes of the record, the slots
ExpectedCalls(fields, rec, hasSrc) ==
    (IF hasSrc /\ \A i \in 1..Len(fields) : fields[i].t # "source"
     THEN <<Call(<<>>, <<"s", "o", "u", "r", "c", "e">>)>> ELSE <<>>)
    \o LeafCalls(rec.attrs, <<>>)
    \o BuiltinCalls(fields, rec, hasSrc, 1)

\* C20: the calls of the hook in one Handle call are one for each attribute
\* of the record that is not a group and one for each builtin field the
\* template renders, and no other: none for a group attribute, for a zero
\* time, or for the call-site when AddSource is off or the PC is zero.
C20_HookCalledOncePerField ==
    last.op = "Handle" =>
        last.log = ExpectedCalls(handlers[last.h].fields, last.rec,
                                 handlers[last.h].opts.AddSource
                                     /\ last.rec.pc > 0)

\* a record with a zero time, a PC and a group attribute has been rendered
\* with AddSource on a template with a call-site slot and a header slot
\* that captured y
C20_GroupAndZeroTime ==
    /\ last.op = "Handle"
    /\ tpl = TplSourceSlot
    /\ handlers[last.h].opts.AddSource
    /\ last.rec.time = 0 /\ last.rec.pc = 1
    /\ last.rec.attrs = <<AttrY, Group(<<"g">>, <<Group(<<"k">>, <<AttrF>>)>>)>>
    /\ Len(last.log) = 5

\* the calls of a Handle call on a handler made by WithGroup calls with
\* these names: the names are in front of the path of every attribute of the
\* record, and of no builtin field
CallsUnder(names, fields, rec, hasSrc) ==
    (IF hasSrc /\ \A i \in 1..Len(fields) : fields[i].t # "source"
     THEN <<Call(<<>>, <<"s", "o", "u", "r", "c", "e">>)>> ELSE <<>>)
    \o LeafCalls(rec.attrs, names)
    \o BuiltinCalls(fields, rec, hasSrc, 1)

\* C21: the hook is handed, for an attribute of the record, the names given
\* to WithGroup on the way to the handler followed by the keys of the group
\* attributes around the attribute, and the empty path for the timestamp,
\* the level, the message and the call-site.
C21_HookGroupPath ==
    last.op = "Handle" =>
        last.log = CallsUnder(GroupsOf(last.h), handlers[last.h].fields,
                              last.rec,
                              handlers[last.h].opts.AddSource /\ last.rec.pc > 0)

\* a record has been rendered on a handler made by four WithGroup calls
\* after a fifth call on its parent, and the hook was handed the name of
\* that call in place of the handler's own
C21_SiblingNameHanded ==
    /\ last.op = "Handle"
    /\ Len(GroupsOf(last.h)) = 4
    /\ \E c \in 1..Len(last.log) :
           /\ last.log[c].key = <<"y">>
           /\ Len(last.log[c].groups) = 4
           /\ last.log[c].groups # GroupsOf(last.h)

\* a has nothing to show: it is the empty attribute, or one the hook
\* replaces by it, or a group whose children all have nothing to show
RECURSIVE Vacuous(_, _)
Vacuous(a, hook) ==
    IF a.val.kind = "group"
    THEN \A i \in 1..Len(a.val.attrs) : Vacuous(a.val.attrs[i], hook)
    ELSE IsEmptyAttr(a) \/ (hook = "elide" /\ a.key = <<"x">>)

\* as without the groups that have nothing to show, at every depth
RECURSIVE WithoutVacuousGroups(_, _)
WithoutVacuousGroups(as, hook) ==
    IF as = <<>> THEN <<>>
    ELSE (IF Head(as).val.kind # "group" THEN <<Head(as)>>
          ELSE IF Vacuous(Head(as), hook) THEN <<>>
          ELSE <<Group(Head(as).key,
                       WithoutVacuousGroups(Head(as).val.attrs, hook))>>)
         \o WithoutVacuousGroups(Tail(as), hook)

\* C22: the line written for a record is the line of the same record
\* without its group attributes that have no children or only elided ones,
\* at every depth.
C22_VacuousGroupAddsNothing ==
    last.op = "Handle" =>
        /\ last.ret = "nil"
        /\ last.writes[1].data =
               LineOf(mem, handlers, last.h,
                      [last.rec EXCEPT !.attrs =
                          WithoutVacuousGroups(@, handlers[last.h].opts.ReplaceAttr)])

\* with the hook, a record whose group g holds only a group k with x and
\* the empty attribute and an empty group k is rendered as y and f alone
C22_NestedGroupElided ==
    /\ last.op = "Handle"
    /\ tpl = TplHeader
    /\ handlers[last.h].opts.ReplaceAttr = "elide"
    /\ last.rec.attrs =
           <<AttrY,
             Group(<<"g">>, <<Group(<<"k">>, <<AttrX, EmptyAttr>>),
                              Group(<<"k">>, <<>>)>>),
             AttrF>>
    /\ last.writes[1].data =
           <<"I", "N", "F", " ", "v", " ", ">", " ", "h", "i", " ", "y", "=",
             "1", "\n">>

\* as with the children of every group with an empty key in the place of
\* the group, at every depth
RECURSIVE Spliced(_)
Spliced(as) ==
    IF as = <<>> THEN <<>>
    ELSE (IF Head(as).val.kind # "group" THEN <<Head(as)>>
          ELSE IF Head(as).key = <<>> THEN Spliced(Head(as).val.attrs)
          ELSE <<Group(Head(as).key, Spliced(Head(as).val.attrs))>>)
         \o Spliced(Tail(as))

\* the calls of the hook when Handle renders rec on handler hid with a new
\* encoder
LogOf(m, hs, hid, rec) == renderLine(m, hs, hid, NewEncoder, rec).log

\* C23: the line written for a record, and the calls of the hook, are those
\* of the record in which the children of every group with an empty key
\* stand in the place of the group.
C23_InlineAsDeclared ==
    last.op = "Handle" =>
        /\ last.ret = "nil"
        /\ last.writes[1].data =
               LineOf(mem, handlers, last.h,
                      [last.rec EXCEPT !.attrs = Spliced(@)])
        /\ last.log =
               LogOf(mem, handlers, last.h,
                     [last.rec EXCEPT !.attrs = Spliced(@)])

\* f in a group with an empty key inside the group g has been rendered
\* without a hook on "%[f]h > %m %a": it is shown as g..f
C23_DoubledDot ==
    /\ last.op = "Handle"
    /\ tpl = TplKey
    /\ GroupsOf(last.h) = <<>>
    /\ handlers[last.h].opts.ReplaceAttr = "nil"
    /\ last.rec.attrs = <<Group(<<"g">>, <<Group(<<>>, <<AttrF>>), AttrY>>)>>
    /\ last.writes[1].data =
           <<">", " ", "h", "i", " ", "g", ".", ".", "f", "=", "v", " ", "g",
             ".", "y", "=", "1", "\n">>

\* " prefix.k=v" for each attribute of as, in order, whose value holds a
\* line break (multi) or does not
RECURSIVE AttrTexts(_, _, _)
AttrTexts(as, names, multi) ==
    IF as = <<>> THEN <<>>
    ELSE (IF Contains(Head(as).val.s, "\n") = multi
          THEN <<" ">> \o JoinWith(names \o <<Head(as).key>>, <<".">>)
               \o <<"=">> \o Head(as).val.s
          ELSE <<>>)
         \o AttrTexts(Tail(as), names, multi)

\* the same for the attributes given to the WithAttrs calls on the way to
\* h, each under the WithGroup names given before it
RECURSIVE AttachedTexts(_, _)
AttachedTexts(h, multi) ==
    IF born[h].parent = 0 THEN <<>>
    ELSE AttachedTexts(born[h].parent, multi)
         \o (IF born[h].op = "WithAttrs"
             THEN AttrTexts(born[h].arg, GroupsOf(born[h].parent), multi)
             ELSE <<>>)

\* the attribute output of rec on h as the claim has it
TailOrdered(h, rec) ==
    AttachedTexts(h, FALSE) \o AttrTexts(rec.attrs, GroupsOf(h), FALSE)
    \o AttachedTexts(h, TRUE) \o AttrTexts(rec.attrs, GroupsOf(h), TRUE)

\* C24: on "%m %a" the line is the message and then the single-line
\* attributes, those of the WithAttrs calls before those of the record,
\* followed by the multi-line attributes in the same order.
C24_MultilineAtTail ==
    last.op = "Handle" =>
        /\ last.ret = "nil"
        /\ last.writes[1].data = last.rec.msg \o TailOrdered(last.h, last.rec)
                                 \o <<"\n">>

\* a record with a multi-line attribute between two single-line ones has
\* been rendered on d.WithAttrs(f, x, z).WithGroup("g"), z being multi-line:
\* the line holds the record's multi-line attribute at the tail and no z
C24_AttachedMultilineLost ==
    /\ last.op = "Handle"
    /\ last.h = 3
    /\ born[2].op = "WithAttrs" /\ born[2].parent = 1
    /\ Len(born[2].arg) = 3
    /\ born[3].op = "WithGroup" /\ born[3].parent = 2
    /\ last.rec.attrs = <<AttrY, AttrN, AttrA>>
    /\ last.writes[1].data =
           <<"h", "i", " ", "f", "=", "w", " ", "x", "=", "2", " ", "g", ".",
             "y", "=", "1", " ", "g", ".", "a", "=", "1", " ", "g", ".", "n",
             "=", "\n", "c", "\n", "\n">>

\* C25: the line holds the message and every attribute value byte for byte,
\* with the line breaks they start and end with, each after a single space,
\* and then the line terminator.
C25_LineBreaksKept ==
    last.op = "Handle" =>
        /\ last.ret = "nil"
        /\ <<" ">> \o last.writes[1].data =
               WordsFrom(handlers[last.h].fields, last.rec,
                         HeaderKeys(handlers[last.h].fields), 1) \o <<"\n">>

\* the value "\nc\n" of the only attribute of a record has been written on
\* "%m %a" with its leading line break and without its trailing one
C25_TrailingBreakTrimmed ==
    /\ last.op = "Handle"
    /\ tpl = TplMsgAttrs
    /\ last.rec.msg = <<"h", "i">>
    /\ last.rec.attrs = <<AttrN>>
    /\ last.writes[1].data = <<"h", "i", " ", "n", "=", "\n", "c", "\n">>

\* C26: on "%m %a" every handler renders the attributes given to the
\* WithAttrs calls on its way under the WithGroup names given before that
\* call, and the attributes of the record under all the names on its way;
\* this holds for a handler also after others were derived from it.
C26_PrefixAtAttach ==
    last.op = "Handle" =>
        /\ last.ret = "nil"
        /\ last.writes[1].data =
               last.rec.msg \o AttachedTexts(last.h, FALSE)
               \o AttrTexts(last.rec.attrs, GroupsOf(last.h), FALSE)
               \o <<"\n">>

\* d.WithGroup("g").WithAttrs(f).WithGroup("k") has rendered a record with
\* y: the line shows g.f and g.k.y
C26_GroupAfterAttach ==
    /\ last.op = "Handle"
    /\ last.h = 4
    /\ born[2].op = "WithGroup" /\ born[2].parent = 1 /\ born[2].arg = <<"g">>
    /\ born[3].op = "WithAttrs" /\ born[3].parent = 2
    /\ born[4].op = "WithGroup" /\ born[4].parent = 3 /\ born[4].arg = <<"k">>
    /\ last.writes[1].data =
           <<"h", "i", " ", "g", ".", "f", "=", "v", " ", "g", ".", "k", ".",
             "y", "=", "1", "\n">>

\* the line of a record with the attribute y on a handler made by WithGroup
\* calls with these names, for each template of SourceTemplates; src is the
\* text of the call-site, empty when it is absent
SourceLine(t, src, names, rec) ==
    LET y == AttrTexts(rec.attrs, names, FALSE) IN
    (CASE t = TplNoSlot ->
              <<"I", "N", "F", " ">> \o rec.msg
              \o (IF src = <<>> THEN <<>>
                  ELSE <<" ", "s", "o", "u", "r", "c", "e", "=">> \o src)
              \o y
       [] t = TplSourceHeader ->
              (IF src = <<>> THEN <<>> ELSE src \o <<" ">>)
              \o <<">", " ">> \o rec.msg \o y
       [] t = TplSlot ->
              <<"I", "N", "F", " ">>
              \o (IF src = <<>> THEN <<>> ELSE src \o <<" ">>)
              \o rec.msg \o y
       [] t = TplSlotInGroup ->
              <<"I", "N", "F", " ">>
              \o (IF src = <<>> THEN <<>> ELSE <<"[">> \o src \o <<"]", " ">>)
              \o rec.msg \o y)
    \o <<"\n">>

\* C27: the call-site is in the line exactly when AddSource is on and the
\* record has a PC: as the attribute source, without the WithGroup names
\* and before the other attributes, when the template has no call-site
\* slot (a header slot for source then shows it), and in the slot alone when
\* it has one; without it the slot, its space and its group are left out.
C27_SourceWhenAsked ==
    last.op = "Handle" =>
        /\ last.ret = "nil"
        /\ last.writes[1].data =
               SourceLine(tpl,
                          IF handlers[last.h].opts.AddSource /\ last.rec.pc > 0
                          THEN <<"f", ":", "1">> ELSE <<>>,
                          GroupsOf(last.h), last.rec)

\* with AddSource, a record with a PC has been rendered on a handler made
\* by WithGroup("g") on "%[source]h > %m %a": the slot shows the call-site
C27_SourceCapturedInGroup ==
    /\ last.op = "Handle"
    /\ tpl = TplSourceHeader
    /\ GroupsOf(last.h) = <<<<"g">>>>
    /\ handlers[last.h].opts.AddSource
    /\ last.rec.pc = 1
    /\ last.writes[1].data =
           <<"f", ":", "1", " ", ">", " ", "h", "i", " ", "g", ".", "y", "=",
             "1", "\n">>

\* the named thresholds with their names
Thresholds ==
    { [at |-> -4, short |-> <<"D", "B", "G">>, long |-> <<"D", "E", "B", "U", "G">>],
      [at |-> 0, short |-> <<"I", "N", "F">>, long |-> <<"I", "N", "F", "O">>],
      [at |-> 4, short |-> <<"W", "R", "N">>, long |-> <<"W", "A", "R", "N">>],
      [at |-> 8, short |-> <<"E", "R", "R">>, long |-> <<"E", "R", "R", "O", "R">>] }

\* the highest threshold not above l, and Debug when l is below all
ThresholdOf(l) ==
    IF \E t \in Thresholds : t.at <= l
    THEN CHOOSE t \in Thresholds :
             t.at <= l /\ \A u \in Thresholds : u.at <= l => u.at <= t.at
    ELSE CHOOSE t \in Thresholds : t.at = -4

\* the decimal digits of n > 0
RECURSIVE Decimal(_)
Decimal(n) ==
    (IF n >= 10 THEN Decimal(n \div 10) ELSE <<>>)
    \o <<SubSeq(<<"0", "1", "2", "3", "4", "5", "6", "7", "8", "9">>,
                (n % 10) + 1, (n % 10) + 1)[1]>>

\* the name of the threshold of l, and the offset of l from it with its
\* sign when it is not zero
LevelWord(l, abbreviated) ==
    (IF abbreviated THEN ThresholdOf(l).short ELSE ThresholdOf(l).long)
    \o (IF l > ThresholdOf(l).at THEN <<"+">> \o Decimal(l - ThresholdOf(l).at)
        ELSE IF l < ThresholdOf(l).at
        THEN <<"-">> \o Decimal(ThresholdOf(l).at - l)
        ELSE <<>>)

\* C28: without a hook, %l shows the short name of the highest threshold
\* not above the level (Debug below all) and the signed offset from it when
\* it is not zero, and %L the same with the long name.
C28_LevelNameAndOffset ==
    last.op = "Handle" =>
        /\ last.ret = "nil"
        /\ last.writes[1].data =
               LevelWord(last.rec.level, tpl = TplAbbreviated)
               \o <<" ", "h", "i", "\n">>

\* the level one below Debug has been rendered with %l as DBG-1
C28_BelowDebug ==
    /\ last.op = "Handle"
    /\ tpl = TplAbbreviated
    /\ last.rec.level = -5
    /\ last.writes[1].data = <<"D", "B", "G", "-", "1", " ", "h", "i", "\n">>

\* caller t is in a call that has not reached the write
BeforeWrite(t) == thr[t].pc \in {"encode", "fields", "write"}

\* caller t's call ends with this step
Returns(t) == thr[t].ret = "none" /\ thr'[t].ret # "none"

\* the step is the write of caller t: the sink gets the whole buffer, which
\* ends with the line terminator
WritesLine(t) ==
    /\ thr[t].pc = "write"
    /\ thr'[t].line = Bytes(encs[thr[t].enc].buf)
    /\ thr'[t].line # <<>>
    /\ thr'[t].line[Len(thr'[t].line)] = "\n"

\* what the claim says of caller t in one step
OneWrite(t) ==
    /\ BeforeWrite(t) => thr[t].line = <<>>
    /\ (BeforeWrite(t) /\ thr'[t].line # <<>>) => WritesLine(t)
    /\ (thr[t].pc = "write" /\ thr'[t] # thr[t]) => WritesLine(t)
    /\ thr[t].pc = "free" => thr'[t].line = thr[t].line
    /\ Returns(t) => thr'[t].line # <<>>

\* C29: a Handle call hands nothing to the sink before its instructions
\* have run, then the whole buffer with the line terminator at its end in
\* one write, and nothing after it; no call returns without that write.
C29_OneWriteAtEnd == [][\A t \in DOMAIN thr : OneWrite(t)]_vars

\* a call has ended in a panic before its write
C29_PanicBeforeWrite ==
    \E t \in DOMAIN thr :
        thr[t].pc = "idle" /\ thr[t].ret = "panic" /\ thr[t].line = <<>>

\* the interpreter of Handle on handler h and record rec, on a new encoder,
\* before the first instruction
AtStart(h, rec) ==
    [M |-> encodeRecord(Machine(mem, handlers,
                                newEncoder(mem, handlers, h, NewEncoder)),
                        rec, handlers[h].opts.AddSource /\ rec.pc > 0),
     state |-> ZeroState, stack |-> <<>>, marks |-> <<>>, headerIdx |-> 0,
     pos |-> 0]

\* the interpreter after the first k instructions
AfterFields(h, rec, k) ==
    runFields(AtStart(h, rec), SubSeq(handlers[h].fields, 1, k), 1, rec,
              handlers[h].opts.AddSource /\ rec.pc > 0)

IsSlot(f) ==
    f.t \in {"header", "level", "message", "attrs", "source", "timestamp"}

Pending(I) == I.state.pendingSpace \/ I.state.pendingHardSpace

\* instruction k of handler h is a slot that found a pending space and wrote
\* nothing for rec
EmptySlotAfterSpace(h, rec, k) ==
    /\ IsSlot(handlers[h].fields[k])
    /\ ~AfterFields(h, rec, k - 1).M.panic
    /\ Pending(AfterFields(h, rec, k - 1))
    /\ k \notin AfterFields(h, rec, k).M.printed

\* the line is after instruction k what it was before it, and so are the
\* flags of the pending space
SlotLeftNoTrace(h, rec, k) ==
    /\ Bytes(AfterFields(h, rec, k).M.e.buf) =
           Bytes(AfterFields(h, rec, k - 1).M.e.buf)
    /\ AfterFields(h, rec, k).state.pendingSpace =
           AfterFields(h, rec, k - 1).state.pendingSpace
    /\ AfterFields(h, rec, k).state.pendingHardSpace =
           AfterFields(h, rec, k - 1).state.pendingHardSpace

\* C30: a slot that writes nothing after its pending space was written
\* leaves the line exactly as the earlier instructions left it, white space
\* at its ends included, and leaves the pending-space flags set.
C30_OnlyTheSpaceRemoved ==
    last.op = "Handle" =>
        \A k \in 1..Len(handlers[last.h].fields) :
            EmptySlotAfterSpace(last.h, last.rec, k)
                => SlotLeftNoTrace(last.h, last.rec, k)

\* the empty header slot of "%m %{%[f]h:%} %a" has cut the line break that
\* ends the message
C30_MessageBreakChopped ==
    /\ last.op = "Handle"
    /\ tpl = TplAfterMsg
    /\ last.rec = Rec(<<"m", "\n">>, <<>>)
    /\ \E k \in 1..Len(handlers[last.h].fields) :
        /\ EmptySlotAfterSpace(last.h, last.rec, k)
        /\ Bytes(AfterFields(last.h, last.rec, k - 1).M.e.buf) = <<"m", "\n">>
        /\ Bytes(AfterFields(last.h, last.rec, k).M.e.buf) = <<"m">>

\* instruction k of handler h is a hard space that Handle reaches for rec
HardSpaceAt(h, rec, k) ==
    /\ handlers[h].fields[k].t = "spacer"
    /\ handlers[h].fields[k].hard
    /\ ~AfterFields(h, rec, k - 1).M.panic

\* the hard space at k is pending after it, and literal text that follows it
\* directly is written after one space byte
HardSpaceKept(h, rec, k) ==
    /\ AfterFields(h, rec, k).state.pendingHardSpace
    /\ (k < Len(handlers[h].fields) /\ handlers[h].fields[k + 1].t = "string")
           => Bytes(AfterFields(h, rec, k + 1).M.e.buf) =
                  Bytes(AfterFields(h, rec, k - 1).M.e.buf)
                  \o <<" ">> \o handlers[h].fields[k + 1].s

\* C31: a hard space marks a pending hard space whatever the line holds,
\* and the literal text after it is written after one space byte.
C31_HardSpaceNeverDropped ==
    last.op = "Handle" =>
        \A k \in 1..Len(handlers[last.h].fields) :
            HardSpaceAt(last.h, last.rec, k)
                => HardSpaceKept(last.h, last.rec, k)

\* a hard space has been reached with an empty line and has left nothing
\* pending
C31_HardSpaceAtStartDropped ==
    /\ last.op = "Handle"
    /\ \E k \in 1..Len(handlers[last.h].fields) :
        /\ HardSpaceAt(last.h, last.rec, k)
        /\ Bytes(AfterFields(last.h, last.rec, k - 1).M.e.buf) = <<>>
        /\ ~AfterFields(last.h, last.rec, k).state.pendingHardSpace

\* instruction k of fields is literal text
IsText(fields, k) == k \in 1..Len(fields) /\ fields[k].t = "string"

\* C32: in the handler NewHandler returns, a space is hard exactly when the
\* instruction directly before it or directly after it is literal text.
C32_HardIffNextToText ==
    \A h \in 1..Len(handlers) : \A k \in 1..Len(handlers[h].fields) :
        handlers[h].fields[k].t = "spacer" =>
            (handlers[h].fields[k].hard <=>
                 (IsText(handlers[h].fields, k - 1)
                  \/ IsText(handlers[h].fields, k + 1)))

\* the space of "x%a %l", between the attributes and the level, is hard
C32_SpaceBetweenSlotsHard ==
    /\ tpl = TplTextAttrs
    /\ last.op = "Handle"
    /\ handlers[1].fields[3].t = "spacer"
    /\ handlers[1].fields[3].hard
    /\ handlers[1].fields[2].t = "attrs"
    /\ handlers[1].fields[4].t = "level"

\* the positions of t that hold no white space
Solid(t) == {i \in 1..Len(t) : t[i] \notin {" ", "\t", "\n"}}

\* the positions of t, between its first and its last byte that is not
\* white space, where a run of spaces starts
SpaceRuns(t) ==
    {i \in 2..Len(t) :
        /\ t[i] = " "
        /\ t[i - 1] # " "
        /\ \E a \in Solid(t) : a < i
        /\ \E b \in Solid(t) : b > i}

Spacers(fields) == {k \in 1..Len(fields) : fields[k].t = "spacer"}

StrayCloseAt(h, rec, k) ==
    /\ handlers[h].fields[k].t = "groupClose"
    /\ ~AfterFields(h, rec, k - 1).M.panic
    /\ AfterFields(h, rec, k - 1).stack = <<>>

\* C34: a group-close with no open group changes neither the line nor the
\* interpreter's state nor the stack; the '%}' after a '%(name){' with an
\* unknown style name is one, and what stands between them is rendered at
\* the top level.
C34_StrayCloseNoOp ==
    last.op = "Handle" =>
        /\ \A k \in 1..Len(handlers[last.h].fields) :
               StrayCloseAt(last.h, last.rec, k) =>
                   /\ AfterFields(last.h, last.rec, k).M.e =
                          AfterFields(last.h, last.rec, k - 1).M.e
                   /\ AfterFields(last.h, last.rec, k).state =
                          AfterFields(last.h, last.rec, k - 1).state
                   /\ AfterFields(last.h, last.rec, k).stack = <<>>
        /\ last.ret = "nil"
        /\ tpl = TplBadStyle =>
               /\ \A k \in 1..Len(handlers[last.h].fields) :
                      handlers[last.h].fields[k].t # "groupOpen"
               /\ \E k \in 1..Len(handlers[last.h].fields) :
                      StrayCloseAt(last.h, last.rec, k)
               /\ last.rec = Rec(<<"h", "i">>, <<>>) =>
                      last.writes[1].data =
                          <<"I", "N", "F", " ", "%", "!", "{", "(", "b", "a",
                            "d", ")">> \o INVALID_STYLE_MODIFIER
                          \o <<" ", ">", " ", "h", "i", "\n">>

\* the second '%}' of "%l %{%[f]h%} %} %m" has been passed after the group
\* before it was elided, and the line has kept the level
C34_CloseAfterEmptySlot ==
    /\ last.op = "Handle"
    /\ tpl = TplCloseTwice
    /\ last.rec = Rec(<<"h", "i">>, <<>>)
    /\ last.writes[1].data = <<"I", "N", "F", " ", "h", "i", "\n">>

\* the keys of the header slots that attribute a, attached to or handled by
\* handler h, is captured by: the slots without a prefix, for a handler
\* without a group prefix
SlotsOf(h, a) ==
    {i \in 1..Len(mem[handlers[h].headerFields]) :
        /\ handlers[h].groupPrefix = <<>>
        /\ mem[handlers[h].headerFields][i].groupPrefix = <<>>
        /\ mem[handlers[h].headerFields][i].key = a.key}

\* an attribute of as and an attribute of bs are captured by the same slot
Clash(h, as, bs) ==
    \E i \in 1..Len(as), j \in 1..Len(bs) :
        SlotsOf(h, as[i]) \cap SlotsOf(h, bs[j]) # {}

\* C35: a record renders on h.WithAttrs(A) as the record with A before its
\* own attributes renders on h, when no attribute of the record is captured
\* by a header slot that captures an attribute of A; and what Handle writes
\* is that line.
C35_AttachedAsRecordAttrs ==
    /\ \A n \in 1..Len(handlers) : \A rec \in EquivRecords :
           (born[n].op = "WithAttrs"
            /\ ~Clash(born[n].parent, born[n].arg, rec.attrs))
               => LineOf(mem, handlers, n, rec) =
                      LineOf(mem, handlers, born[n].parent,
                             [rec EXCEPT !.attrs = born[n].arg \o @])
    /\ last.op = "Handle" =>
           /\ Len(last.writes) = 1
           /\ last.writes[1].data = LineOf(mem, handlers, last.h, last.rec)

\* a record has been handled by a handler with an attached header value, a
\* single-line and a multi-line attribute
C35_HandledWithAttached ==
    /\ last.op = "Handle"
    /\ born[last.h].op = "WithAttrs"
    /\ born[last.h].arg = <<AttrF, AttrX, AttrZ>>
    /\ handlers[last.h].groupPrefix = <<>>
    /\ handlers[last.h].opts.ReplaceAttr = "nil"
    /\ last.rec.attrs = <<AttrY>>
    /\ last.writes[1].data =
           <<"I", "N", "F", " ", "v", " ", ">", " ", "h", "i", " ",
             "x", "=", "2", " ", "y", "=", "1", " ",
             "z", "=", "a", "\n", "b", "\n">>

\* the header instructions of fields, in order
RECURSIVE HeadersOf(_)
HeadersOf(fields) ==
    IF fields = <<>> THEN <<>>
    ELSE (IF Head(fields).t = "header" THEN <<Head(fields)>> ELSE <<>>)
         \o HeadersOf(Tail(fields))

\* what a header instruction and a catalog entry say of the slot
SlotOf(f) ==
    [key |-> f.key, groupPrefix |-> f.groupPrefix, width |-> f.width,
     rightAlign |-> f.rightAlign]

SameSlots(fs, cat) ==
    /\ Len(fs) = Len(cat)
    /\ \A i \in 1..Len(fs) : SlotOf(fs[i]) = SlotOf(cat[i])

\* C36: the catalog parseFormat returns lists the header instructions of the
\* instruction list, in order; the catalog of every handler, derived ones
\* included, still does; and in Handle the index of the catalog counts the
\* header instructions passed, so it stays within the catalog and the
\* capture slots, which are as many.
C36_CatalogFollowsSlots ==
    /\ parsed.headerFields = HeadersOf(parsed.fields)
    /\ \A h \in 1..Len(handlers) :
           /\ SameSlots(HeadersOf(handlers[h].fields),
                        mem[handlers[h].headerFields])
           /\ handlers[h].fields = handlers[1].fields
    /\ last.op = "Handle" =>
           /\ Len(AtStart(last.h, last.rec).M.e.headerAttrs) =
                  Len(mem[handlers[last.h].headerFields])
           /\ \A k \in 0..Len(handlers[last.h].fields) :
                  /\ ~AfterFields(last.h, last.rec, k).M.panic
                  /\ AfterFields(last.h, last.rec, k).headerIdx =
                         Len(HeadersOf(SubSeq(handlers[last.h].fields, 1, k)))

\* a handler derived by WithAttrs and WithGroup has handled a record whose
\* first and third slot of three show a value, the second being elided with
\* its group
C36_ThirdSlotAfterElidedGroup ==
    /\ last.op = "Handle"
    /\ tpl = TplThreeSlots
    /\ Len(handlers) = 3
    /\ last.h = 3
    /\ born[3].op = "WithGroup"
    /\ born[3].parent = 2
    /\ born[2].op = "WithAttrs"
    /\ born[2].arg = <<AttrA>>
    /\ last.rec.attrs = <<>>
    /\ last.writes[1].data =
           <<"1", " ", " ", " ", " ", " ", "h", "i", "\n">>

\* the start marks of the interpreter: of the current group and of the
\* groups on the stack
StartMarks(I) ==
    {I.state.groupStart} \cup {I.stack[i].groupStart : i \in 1..Len(I.stack)}

\* C37: after every instruction of Handle, no start mark of a group is past
\* the end of the line.
C37_MarksWithinLine ==
    last.op = "Handle" =>
        \A k \in 0..Len(handlers[last.h].fields) :
            ~AfterFields(last.h, last.rec, k).M.panic =>
                \A g \in StartMarks(AfterFields(last.h, last.rec, k)) :
                    g <= AfterFields(last.h, last.rec, k).M.e.buf.len

\* in "%m %{%[f]h:%} %a" the chop after the empty header slot has left the
\* line shorter than the start mark of the open group
C37_LineShorterThanMark ==
    /\ last.op = "Handle"
    /\ tpl = TplAfterMsg
    /\ last.rec = Rec(<<"m", "\n">>, <<>>)
    /\ \E k \in 1..Len(handlers[last.h].fields) :
        /\ handlers[last.h].fields[k].t = "header"
        /\ AfterFields(last.h, last.rec, k).state.groupStart = 2
        /\ AfterFields(last.h, last.rec, k).M.e.buf.len = 1

\* encoding a leaves the path as it was, and so does encoding each
\* attribute inside a, on the path a's children are encoded with
RECURSIVE BalancedAll(_, _, _)
Balanced(M, a, group) ==
    /\ GroupPath(writeAttr(M, a, group).e.groups) = GroupPath(M.e.groups)
    /\ a.val.kind = "group" =>
           BalancedAll(IF HookOf(M) # "nil" THEN pushGroup(M, a.key) ELSE M,
                       a.val.attrs,
                       IF group # <<>> THEN group \o <<".">> \o a.key
                       ELSE a.key)

BalancedAll(M, attrs, group) ==
    \/ attrs = <<>>
    \/ /\ Balanced(M, Head(attrs), group)
       /\ BalancedAll(writeAttr(M, Head(attrs), group), Tail(attrs), group)

\* the machine of a call on handler h with the encoder pe of the pool
Borrowed(h, pe) == Machine(mem, handlers, newEncoder(mem, handlers, h, pe))

\* C38: in every Handle call, on whichever encoder the pool hands out, the
\* path after the call-site attribute is the path newEncoder made (with a
\* hook, the names the handler holds), and encoding each attribute of the
\* record, at any depth, leaves the path as it was.
C38_GroupPathBalanced ==
    last.op = "Handle" =>
        \A pe \in pool \cup {NewEncoder} :
            /\ GroupPath(sourceAttr(Borrowed(last.h, pe),
                                    last.rec.pc > 0).e.groups)
                   = GroupPath(Borrowed(last.h, pe).e.groups)
            /\ handlers[last.h].opts.ReplaceAttr # "nil" =>
                   GroupPath(sourceAttr(Borrowed(last.h, pe),
                                        last.rec.pc > 0).e.groups)
                       = Elems(mem, handlers[last.h].groups)
            /\ BalancedAll(appendContexts(sourceAttr(Borrowed(last.h, pe),
                                                     last.rec.pc > 0)),
                           last.rec.attrs, handlers[last.h].groupPrefix)

\* a record with a PC and nested groups, one of them with only an elided
\* child, has been rendered with the eliding hook on a handler two groups
\* deep, and the call-site was encoded as an attribute
C38_NestedUnderTwoGroups ==
    /\ last.op = "Handle"
    /\ handlers[last.h].opts.ReplaceAttr = "elide"
    /\ Len(Elems(mem, handlers[last.h].groups)) = 2
    /\ last.rec.pc = 1
    /\ Len(last.rec.attrs) = 2
    /\ last.rec.attrs[1].val.kind = "group"
    /\ sourceAttr(Borrowed(last.h, NewEncoder), TRUE).e.attrBuf.len > 0

\* what a call can read of an encoder: the bytes of its buffers, its path,
\* its captures and its handler
Visible(e) ==
    [h |-> e.h, buf |-> Bytes(e.buf), attrBuf |-> Bytes(e.attrBuf),
     multilineAttrBuf |-> Bytes(e.multilineAttrBuf),
     groups |-> GroupPath(e.groups), headerAttrs |-> e.headerAttrs]

RECURSIVE GivenNames(_)
GivenNames(names) ==
    IF names = <<>> THEN <<>>
    ELSE (IF StrTrimSpace(Head(names)) = <<>> THEN <<>>
          ELSE <<StrTrimSpace(Head(names))>>)
         \o GivenNames(Tail(names))

\* p has an empty segment: a '.' at its start or its end, or two in a row
EmptySegment(p) ==
    /\ p # <<>>
    /\ \/ p[1] = "."
       \/ p[Len(p)] = "."
       \/ \E i \in 1..(Len(p) - 1) : p[i] = "." /\ p[i + 1] = "."

\* C40: the group prefix of every handler is the names given to WithGroup
\* on the way to it joined with '.', with no empty segment, and a handler
\* made by WithGroup with an empty or all-white-space name has the prefix
\* of its parent and renders every record as its parent does.
C40_PrefixJoinsNames ==
    \A i \in 1..Len(handlers) :
        /\ handlers[i].groupPrefix = JoinWith(GivenNames(GroupsOf(i)), ".")
        /\ ~EmptySegment(handlers[i].groupPrefix)
        /\ (born[i].op = "WithGroup" /\ StrTrimSpace(born[i].arg) = <<>>) =>
               /\ handlers[i].groupPrefix
                      = handlers[born[i].parent].groupPrefix
               /\ \A rec \in NameRecords :
                      LineOf(mem, handlers, i, rec)
                          = LineOf(mem, handlers, born[i].parent, rec)

\* WithGroup("g").WithGroup(" ") has the prefix "g." and has rendered the
\* attribute y=1 with the key "g..y"
C40_TrailingDot ==
    /\ Len(handlers) >= 3
    /\ born[2].parent = 1 /\ born[2].arg = <<"g">>
    /\ born[3].parent = 2 /\ born[3].arg = <<" ">>
    /\ handlers[3].groupPrefix = <<"g", ".">>
    /\ last.op = "Handle" /\ last.h = 3
    /\ last.rec.attrs = <<AttrY>>
    /\ Len(last.writes) = 1
    /\ last.writes[1].data
           = <<"I", "N", "F", " ", "h", "i", " ", "g", ".", ".", "y", "=",
               "1", "\n">>
=============================================================================
